---- MODULE Spec2Model ----
(***************************************************************************)
(* Internal wallet service: the transaction execution engine               *)
(* (app/services/wallet_service.py) driven by the HTTP handlers            *)
(* (app/api/v1/wallets.py) over a PostgreSQL store.                         *)
(*                                                                         *)
(* Every request runs in its own database session.  A request is a         *)
(* process that advances one store statement (one await) at a time; the    *)
(* writes of a session stay private until its commit.  Amounts are         *)
(* Numeric(20, 2) values, held here as integers in hundredths.             *)
(***************************************************************************)
EXTENDS Integers, Sequences, FiniteSets, TLC

(***************************************************************************)
(* Bounds of the model.                                                    *)
(***************************************************************************)
NumRequests == 3
MaxTicks == 2

(***************************************************************************)
(* Program constants.                                                      *)
(***************************************************************************)
TTL_HOURS == 24
HTTP_200_OK == 200
HTTP_201_CREATED == 201
HTTP_400 == 400
HTTP_404 == 404
HTTP_500 == 500

Procs == 1..NumRequests
TickHours == TTL_HOURS \div 2

\* The asset_types table (never written by the service).
asset_types ==
    { [id |-> 1, code |-> "GOLD_COIN", is_active |-> TRUE],
      [id |-> 2, code |-> "DIAMOND",   is_active |-> FALSE] }

\* Inputs of the requests: an active code, an inactive one and an absent one.
AssetCodes == {"GOLD_COIN", "DIAMOND", "SILVER"}
OrdinaryUserIds == {"alice"}
UserIds == OrdinaryUserIds \cup {"SYSTEM_TREASURY_GOLD_COIN", "SYSTEM_BONUS_POOL_GOLD_COIN"}
Amounts == {1000, 3000}
\* Idempotency keys are interchangeable: the p-th request carries one of the
\* first p keys.
IdempotencyKey(i) == "k" \o ToString(i)
IdempotencyKeys(p) == {IdempotencyKey(i) : i \in 1..p}
MutatingOps == {"topup", "bonus", "spend"}

\* The isolation level of the sessions is set where the engine is created
\* (app/database.py).  PostgreSQL's default is READ COMMITTED; the design
\* asks for REPEATABLE READ.  Both are admitted.
IsolationLevels == {"READ COMMITTED", "REPEATABLE READ"}

VARIABLES
    isolation_level,   \* the engine's isolation level
    now,               \* the clock, in hours
    wallets,           \* committed wallets rows: id -> row
    wallet_seq,        \* wallets_id_seq (sequences are not transactional)
    transactions,      \* committed transactions rows, in commit order
    tx_seq,            \* transactions_id_seq
    ledger_entries,    \* committed ledger_entries rows, in insertion order
    idempotency_logs,  \* committed idempotency_logs rows
    locks,             \* locks[p]: wallet rows p holds FOR UPDATE
    pc,                \* pc[p]: the await the request is at
    req,               \* req[p]: the request
    resp,              \* resp[p]: the response sent
    snapshot,          \* snapshot[p]: wallets as of p's first statement
    identity_map,      \* identity_map[p]: Wallet objects loaded in p's session
    new_wallets,       \* new_wallets[p]: wallets rows p inserted, uncommitted
    new_tx,            \* new_tx[p]: the header p inserted, uncommitted
    new_entries,       \* new_entries[p]: ledger rows p inserted, uncommitted
    new_log,           \* new_log[p]: the idempotency row p inserted, uncommitted
    user_wallet,       \* user_wallet[p]: id of the user wallet p resolved
    system_wallet,     \* system_wallet[p]: id of the system wallet p resolved
    checked            \* checked[p]: what the balance check of p compared

store == <<wallets, wallet_seq, transactions, tx_seq, ledger_entries,
           idempotency_logs>>
session == <<snapshot, identity_map, new_wallets, new_tx, new_entries, new_log,
             user_wallet, system_wallet>>
vars == <<isolation_level, now, store, locks, pc, req, resp, session, checked>>

NoRequest == [op |-> "none", user_id |-> "", asset_type_code |-> "",
              amount |-> 0, idempotency_key |-> ""]
NoResponse == [status |-> 0, error |-> "", cached |-> FALSE, body |-> <<>>]
NoFunction == [x \in {} |-> 0]

RECURSIVE SumSeq(_)
SumSeq(s) == IF s = <<>> THEN 0 ELSE Head(s) + SumSeq(Tail(s))

\* f with x mapped to v (x added to the domain when absent).
Put(f, x, v) == [y \in DOMAIN f \cup {x} |-> IF y = x THEN v ELSE f[y]]

(***************************************************************************)
(* Serialisation of responses.  A Decimal is written to JSON as a decimal  *)
(* literal (integer part, two fraction digits) and read back from it.      *)
(***************************************************************************)
DecimalToJson(d) == <<d \div 100, d % 100>>
JsonToDecimal(j) == j[1] * 100 + j[2]

\* TransactionResponse(...), as the handlers build it from the header.
TransactionResponse(t) ==
    [transaction_id   |-> t.transaction_id,
     transaction_type |-> t.transaction_type,
     status           |-> t.status,
     from_wallet_id   |-> t.from_wallet_id,
     to_wallet_id     |-> t.to_wallet_id,
     amount           |-> t.amount,
     created_at       |-> t.created_at,
     completed_at     |-> t.completed_at]

ResponseFields == <<"transaction_id", "transaction_type", "status",
                    "from_wallet_id", "to_wallet_id", "amount", "created_at",
                    "completed_at">>

\* response.model_dump(mode='json'), and the validation of a dict against
\* the response model.
ModelDumpJson(r) == [r EXCEPT !.amount = DecimalToJson(r.amount)]
ModelValidate(d) == [d EXCEPT !.amount = JsonToDecimal(d.amount)]

\* json.dumps / json.loads of a response body: the text is the list of its
\* members.
JsonDumps(d) == [i \in 1..Len(ResponseFields) |->
                    <<ResponseFields[i], d[ResponseFields[i]]>>]
JsonLoads(s) == [k \in {s[i][1] : i \in DOMAIN s} |->
                    s[CHOOSE i \in DOMAIN s : s[i][1] = k][2]]

\* WalletBalanceResponse(...).
WalletBalanceResponse(w, row, balance, code) ==
    [wallet_id |-> w, user_id |-> row.user_id, asset_type_code |-> code,
     balance |-> DecimalToJson(balance), is_system |-> row.is_system]

\* A lookup that also requires the path of one endpoint.
CheckIdempotencyOfTopupPath(key) ==
    LET hits == {l \in idempotency_logs :
                    /\ l.idempotency_key = key
                    /\ l.expires_at > now
                    /\ l.request_path = "/api/v1/wallets/topup"}
    IN  IF hits = {} THEN <<>>
        ELSE LET log == CHOOSE l \in hits : TRUE
             IN  <<[status |-> log.response_status,
                    body |-> JsonLoads(log.response_body)]>>

(***************************************************************************)
(* Reads of the service.                                                   *)
(***************************************************************************)
\* _check_idempotency without the filter on the key.
CheckIdempotencyAnyKey(key) ==
    LET hits == {l \in idempotency_logs : l.expires_at > now}
    IN  IF hits = {} THEN <<>>
        ELSE LET log == CHOOSE l \in hits : TRUE
             IN  <<[status |-> log.response_status,
                    body |-> JsonLoads(log.response_body)]>>

\* _check_idempotency with the comparison of expires_at reversed.
CheckIdempotencyExpired(key) ==
    LET hits == {l \in idempotency_logs :
                    l.idempotency_key = key /\ l.expires_at < now}
    IN  IF hits = {} THEN <<>>
        ELSE LET log == CHOOSE l \in hits : TRUE
             IN  <<[status |-> log.response_status,
                    body |-> JsonLoads(log.response_body)]>>

\* _check_idempotency: the unexpired record of the key, as {status, body}.
CheckIdempotency(key) ==
    LET hits == {l \in idempotency_logs :
                    l.idempotency_key = key /\ l.expires_at > now}
    IN  IF hits = {} THEN <<>>
        ELSE LET log == CHOOSE l \in hits : TRUE
             IN  <<[status |-> log.response_status,
                    body |-> JsonLoads(log.response_body)]>>

\* Every asset type of that code, active or not.
GetAssetTypeByCodeAnyStatus(code) ==
    {a \in asset_types : a.code = code}

\* _get_asset_type_by_code: the active asset types of that code.
GetAssetTypeByCode(code) ==
    {a \in asset_types : a.code = code /\ a.is_active}

AssetOf(p) == CHOOSE a \in GetAssetTypeByCode(req[p].asset_type_code) : TRUE

\* The user_id of the system counterparty of an operation.
SystemUserId(op, code) ==
    CASE op = "topup" -> "SYSTEM_TREASURY_" \o code
      [] op = "bonus" -> "SYSTEM_BONUS_POOL_" \o code
      [] OTHER        -> "SYSTEM_REVENUE_" \o code

TransactionType(op) ==
    CASE op = "topup" -> "TOPUP"
      [] op = "bonus" -> "BONUS"
      [] OTHER        -> "SPEND"

RequestPath(op) == "/api/v1/wallets/" \o op

(***************************************************************************)
(* The store as a session sees it.                                         *)
(***************************************************************************)
RepeatableRead == isolation_level = "REPEATABLE READ"

\* The committed wallets rows the statements of p read.
CommittedView(p) == IF RepeatableRead THEN snapshot[p] ELSE wallets

VisibleIds(p) == DOMAIN CommittedView(p) \cup DOMAIN new_wallets[p]

Row(p, w) == IF w \in DOMAIN new_wallets[p] THEN new_wallets[p][w]
             ELSE CommittedView(p)[w]

\* select(Wallet).where(user_id == .., asset_type_id == ..): 0 for None.
FindWallet(p, uid, aid) ==
    LET m == {w \in VisibleIds(p) :
                 Row(p, w).user_id = uid /\ Row(p, w).asset_type_id = aid}
    IN  IF m = {} THEN 0 ELSE CHOOSE w \in m : TRUE

LockedByOther(p, w) == \E q \in Procs \ {p} : w \in locks[q]

\* Under REPEATABLE READ a row lock on a row that a transaction committed
\* after the snapshot has updated fails ("could not serialize access").
SerializationFailure(p, w) ==
    RepeatableRead /\ w \in DOMAIN wallets /\ wallets[w] # snapshot[p][w]

\* The ORM returns the object of the identity map when the row is already
\* loaded in the session, and does not overwrite its loaded attributes.
Loaded(im, w, balance) ==
    IF w \in DOMAIN im THEN im
    ELSE Put(im, w, [balance |-> balance, dirty |-> FALSE])

\* A wallets table without the unique constraint.
CommittedDuplicateUnconstrained(uid, aid) == FALSE

\* uq_user_asset: wallets rows with that (user_id, asset_type_id).
CommittedDuplicate(uid, aid) ==
    \E w \in DOMAIN wallets :
        wallets[w].user_id = uid /\ wallets[w].asset_type_id = aid

PendingDuplicate(p, uid, aid) ==
    {q \in Procs \ {p} :
        \E w \in DOMAIN new_wallets[q] :
            new_wallets[q][w].user_id = uid
            /\ new_wallets[q][w].asset_type_id = aid}

\* A uniqueness that binds only while the record of the key is unexpired.
CommittedKeyUnexpired(key) ==
    /\ \E i \in DOMAIN transactions : transactions[i].idempotency_key = key
    /\ \E l \in idempotency_logs :
          l.idempotency_key = key /\ l.expires_at > now

\* The unique index on transactions.idempotency_key.
CommittedKey(key) ==
    \E i \in DOMAIN transactions : transactions[i].idempotency_key = key

PendingKey(p, key) ==
    {q \in Procs \ {p} :
        new_tx[q] # <<>> /\ new_tx[q][1].idempotency_key = key}

\* The unique index on idempotency_logs.idempotency_key.
CommittedLog(key) == \E l \in idempotency_logs : l.idempotency_key = key

PendingLog(p, key) ==
    {q \in Procs \ {p} :
        new_log[q] # <<>> /\ new_log[q][1].idempotency_key = key}

(***************************************************************************)
(* Initial state: an empty store that holds only the asset types.          *)
(***************************************************************************)
Init ==
    /\ isolation_level \in IsolationLevels
    /\ now = 0
    /\ wallets = NoFunction
    /\ wallet_seq = 0
    /\ transactions = <<>>
    /\ tx_seq = 0
    /\ ledger_entries = <<>>
    /\ idempotency_logs = {}
    /\ locks = [p \in Procs |-> {}]
    /\ pc = [p \in Procs |-> "idle"]
    /\ req = [p \in Procs |-> NoRequest]
    /\ resp = [p \in Procs |-> NoResponse]
    /\ snapshot = [p \in Procs |-> NoFunction]
    /\ identity_map = [p \in Procs |-> NoFunction]
    /\ new_wallets = [p \in Procs |-> NoFunction]
    /\ new_tx = [p \in Procs |-> <<>>]
    /\ new_entries = [p \in Procs |-> <<>>]
    /\ new_log = [p \in Procs |-> <<>>]
    /\ user_wallet = [p \in Procs |-> 0]
    /\ system_wallet = [p \in Procs |-> 0]
    /\ checked = [p \in Procs |-> <<>>]

(***************************************************************************)
(* The end of a request.                                                   *)
(***************************************************************************)
\* A close that releases the locks and keeps the rows the session inserted.
CloseSessionKeepingWallets(p) ==
    /\ locks' = [locks EXCEPT ![p] = {}]
    /\ snapshot' = [snapshot EXCEPT ![p] = NoFunction]
    /\ identity_map' = [identity_map EXCEPT ![p] = NoFunction]
    /\ new_tx' = [new_tx EXCEPT ![p] = <<>>]
    /\ new_entries' = [new_entries EXCEPT ![p] = <<>>]
    /\ new_log' = [new_log EXCEPT ![p] = <<>>]
    /\ user_wallet' = [user_wallet EXCEPT ![p] = 0]
    /\ system_wallet' = [system_wallet EXCEPT ![p] = 0]
    /\ UNCHANGED new_wallets

\* The session is closed: what it wrote and did not commit is rolled back
\* and its row locks are released.
CloseSession(p) ==
    /\ locks' = [locks EXCEPT ![p] = {}]
    /\ snapshot' = [snapshot EXCEPT ![p] = NoFunction]
    /\ identity_map' = [identity_map EXCEPT ![p] = NoFunction]
    /\ new_wallets' = [new_wallets EXCEPT ![p] = NoFunction]
    /\ new_tx' = [new_tx EXCEPT ![p] = <<>>]
    /\ new_entries' = [new_entries EXCEPT ![p] = <<>>]
    /\ new_log' = [new_log EXCEPT ![p] = <<>>]
    /\ user_wallet' = [user_wallet EXCEPT ![p] = 0]
    /\ system_wallet' = [system_wallet EXCEPT ![p] = 0]

Respond(p, status, error, cached, body) ==
    /\ resp' = [resp EXCEPT ![p] = [status |-> status, error |-> error,
                                    cached |-> cached, body |-> body]]
    /\ pc' = [pc EXCEPT ![p] = "done"]

\* The statuses when the spend handler has no clause for InsufficientFundsError.
ErrorStatusNoSpendClause(op, error) ==
    CASE error = "ASSET_NOT_FOUND" -> HTTP_404
      [] error = "INSUFFICIENT_FUNDS" /\ op = "topup" -> HTTP_400
      [] error = "WALLET_NOT_FOUND" /\ op = "spend" -> HTTP_404
      [] OTHER -> HTTP_500

\* The status the handler of an operation gives an exception of the service.
ErrorStatus(op, error) ==
    CASE error = "ASSET_NOT_FOUND" -> HTTP_404
      [] error = "INSUFFICIENT_FUNDS" /\ op \in {"topup", "spend"} -> HTTP_400
      [] error = "WALLET_NOT_FOUND" /\ op = "spend" -> HTTP_404
      [] OTHER -> HTTP_500

\* An exception answered without ending the transaction of the session.
RaiseWithoutRollback(p, error) ==
    /\ Respond(p, ErrorStatus(req[p].op, error), error, FALSE, <<>>)
    /\ UNCHANGED <<locks, snapshot, identity_map, new_wallets, new_tx,
                   new_entries, new_log, user_wallet, system_wallet>>

\* The request ends in an exception: the handler answers, the transaction is
\* rolled back.  A failure of the store is named by its kind and, for a
\* unique violation, by the index that was violated.
Raise(p, error) ==
    /\ Respond(p, ErrorStatus(req[p].op, error), error, FALSE, <<>>)
    /\ CloseSession(p)

(***************************************************************************)
(* A request arrives: the idempotency lookup and the asset lookup.         *)
(***************************************************************************)
TakeSnapshot(p) ==
    snapshot' = [snapshot EXCEPT ![p] = IF RepeatableRead THEN wallets
                                        ELSE NoFunction]

\* Requests are issued in the order of their numbers.
MayArrive(p) == pc[p] = "idle" /\ (IF p = 1 THEN TRUE ELSE pc[p - 1] # "idle")

\* Every operation resolving the user wallet with _get_or_create_wallet.
UserWalletAwaitAlwaysCreates(op) == "user_sel"

\* How an operation resolves the user wallet: spend_credits reads it and
\* does not create it, topup_wallet and issue_bonus get or create it.
UserWalletAwait(op) == IF op = "spend" THEN "user_read" ELSE "user_sel"

BeginMutating(p, op, uid, code, amount, key) ==
    /\ MayArrive(p)
    /\ req' = [req EXCEPT ![p] = [op |-> op, user_id |-> uid,
                                  asset_type_code |-> code, amount |-> amount,
                                  idempotency_key |-> key]]
    /\ LET cached == CheckIdempotency(key)
       IN  IF cached # <<>>
           THEN /\ Respond(p, HTTP_201_CREATED, "", TRUE,
                           <<ModelDumpJson(ModelValidate(cached[1].body))>>)
                /\ UNCHANGED <<snapshot>>
           ELSE IF GetAssetTypeByCode(code) = {}
           THEN /\ Respond(p, ErrorStatus(op, "ASSET_NOT_FOUND"),
                           "ASSET_NOT_FOUND", FALSE, <<>>)
                /\ UNCHANGED <<snapshot>>
           ELSE /\ pc' = [pc EXCEPT ![p] = UserWalletAwait(op)]
                /\ TakeSnapshot(p)
                /\ UNCHANGED resp
    /\ UNCHANGED <<isolation_level, now, store, locks, identity_map,
                   new_wallets, new_tx, new_entries, new_log, user_wallet,
                   system_wallet, checked>>

BeginBalance(p, uid, code) ==
    /\ MayArrive(p)
    /\ req' = [req EXCEPT ![p] = [op |-> "balance", user_id |-> uid,
                                  asset_type_code |-> code, amount |-> 0,
                                  idempotency_key |-> ""]]
    /\ IF GetAssetTypeByCode(code) = {}
       THEN /\ Respond(p, ErrorStatus("balance", "ASSET_NOT_FOUND"),
                       "ASSET_NOT_FOUND", FALSE, <<>>)
            /\ UNCHANGED <<snapshot>>
       ELSE /\ pc' = [pc EXCEPT ![p] = "user_read"]
            /\ TakeSnapshot(p)
            /\ UNCHANGED resp
    /\ UNCHANGED <<isolation_level, now, store, locks, identity_map,
                   new_wallets, new_tx, new_entries, new_log, user_wallet,
                   system_wallet, checked>>

(***************************************************************************)
(* spend_credits and get_wallet_balance: the read of the user wallet,      *)
(* which takes no lock.                                                    *)
(***************************************************************************)
ReadUserWallet(p) ==
    /\ pc[p] = "user_read"
    /\ LET w == FindWallet(p, req[p].user_id, AssetOf(p).id)
       IN  IF w = 0
           THEN IF req[p].op = "spend"
                THEN /\ Raise(p, "WALLET_NOT_FOUND")
                     /\ UNCHANGED <<req>>
                ELSE /\ pc' = [pc EXCEPT ![p] = "user_sel"]
                     /\ UNCHANGED <<req, resp, locks, session>>
           ELSE LET im == Loaded(identity_map[p], w, Row(p, w).balance)
                IN  IF req[p].op = "spend"
                    THEN /\ identity_map' = [identity_map EXCEPT ![p] = im]
                         /\ user_wallet' = [user_wallet EXCEPT ![p] = w]
                         /\ pc' = [pc EXCEPT ![p] = "sys_sel"]
                         /\ UNCHANGED <<req, resp, locks, snapshot,
                                        new_wallets, new_tx, new_entries,
                                        new_log, system_wallet>>
                    ELSE /\ Respond(p, HTTP_200_OK, "", FALSE,
                                <<WalletBalanceResponse(w, Row(p, w),
                                      im[w].balance, req[p].asset_type_code)>>)
                         /\ CloseSession(p)
                         /\ UNCHANGED <<req>>
    /\ UNCHANGED <<isolation_level, now, store, checked>>

(***************************************************************************)
(* _get_or_create_wallet: SELECT ... FOR UPDATE, then INSERT when the      *)
(* select returned no row.                                                 *)
(***************************************************************************)
\* The wallet the call at this await is for, and the flag it passes.
TargetUserId(p) ==
    IF pc[p] \in {"user_sel", "user_ins"} THEN req[p].user_id
    ELSE SystemUserId(req[p].op, req[p].asset_type_code)

TargetIsSystem(p) == pc[p] \in {"sys_sel", "sys_ins"}

\* Where the caller goes on once the wallet is returned.
AfterWallet(p) ==
    IF pc[p] \in {"sys_sel", "sys_ins"} THEN "lock"
    ELSE IF req[p].op = "balance" THEN "commit_wallet"
    ELSE "sys_sel"

Resolved(p, w) ==
    IF pc[p] \in {"user_sel", "user_ins"}
    THEN /\ user_wallet' = [user_wallet EXCEPT ![p] = w]
         /\ UNCHANGED system_wallet
    ELSE /\ system_wallet' = [system_wallet EXCEPT ![p] = w]
         /\ UNCHANGED user_wallet

SelectWalletForUpdate(p) ==
    /\ pc[p] \in {"user_sel", "sys_sel"}
    /\ LET w == FindWallet(p, TargetUserId(p), AssetOf(p).id)
       IN  IF w = 0
           THEN /\ pc' = [pc EXCEPT ![p] = IF pc[p] = "user_sel"
                                           THEN "user_ins" ELSE "sys_ins"]
                /\ UNCHANGED <<resp, locks, session>>
           ELSE IF w \in DOMAIN new_wallets[p]
           THEN /\ Resolved(p, w)
                /\ pc' = [pc EXCEPT ![p] = AfterWallet(p)]
                /\ UNCHANGED <<resp, locks, snapshot, identity_map,
                               new_wallets, new_tx, new_entries, new_log>>
           ELSE /\ ~LockedByOther(p, w)
                /\ IF SerializationFailure(p, w)
                   THEN Raise(p, "SERIALIZATION_FAILURE")
                   ELSE /\ locks' = [locks EXCEPT ![p] = @ \cup {w}]
                        /\ identity_map' = [identity_map EXCEPT ![p] =
                               Loaded(@, w, wallets[w].balance)]
                        /\ Resolved(p, w)
                        /\ pc' = [pc EXCEPT ![p] = AfterWallet(p)]
                        /\ UNCHANGED <<resp, snapshot, new_wallets, new_tx,
                                       new_entries, new_log>>
    /\ UNCHANGED <<isolation_level, now, store, req, checked>>

\* A wallet created without the flag of the caller.
NewWalletWithoutFlag(uid, aid, is_system) ==
    [user_id |-> uid, asset_type_id |-> aid, balance |-> 0,
     is_system |-> FALSE, version |-> 0]

\* Wallet(user_id, asset_type_id, balance = 0, is_system, version = 0).
NewWallet(uid, aid, is_system) ==
    [user_id |-> uid, asset_type_id |-> aid, balance |-> 0,
     is_system |-> is_system, version |-> 0]

InsertWallet(p) ==
    /\ pc[p] \in {"user_ins", "sys_ins"}
    /\ PendingDuplicate(p, TargetUserId(p), AssetOf(p).id) = {}
    /\ wallet_seq' = wallet_seq + 1
    /\ IF CommittedDuplicate(TargetUserId(p), AssetOf(p).id)
       THEN Raise(p, "INTEGRITY_ERROR:uq_user_asset")
       ELSE LET w == wallet_seq + 1
            IN  /\ new_wallets' = [new_wallets EXCEPT ![p] =
                       Put(@, w, NewWallet(TargetUserId(p), AssetOf(p).id,
                                           TargetIsSystem(p)))]
                /\ identity_map' = [identity_map EXCEPT ![p] =
                       Put(@, w, [balance |-> 0, dirty |-> FALSE])]
                /\ Resolved(p, w)
                /\ pc' = [pc EXCEPT ![p] = AfterWallet(p)]
                /\ UNCHANGED <<resp, locks, snapshot, new_tx, new_entries,
                               new_log>>
    /\ UNCHANGED <<isolation_level, now, wallets, transactions, tx_seq,
                   ledger_entries, idempotency_logs, req, checked>>

(***************************************************************************)
(* _execute_transaction.                                                   *)
(***************************************************************************)
FromWallet(p) == IF req[p].op = "spend" THEN user_wallet[p]
                 ELSE system_wallet[p]
ToWallet(p) == IF req[p].op = "spend" THEN system_wallet[p]
               ELSE user_wallet[p]

\* A locking select without the filter on the ids: every committed row the
\* session has still to lock.
RowsToLockOfTable(p) ==
    {w \in DOMAIN CommittedView(p) : w \notin locks[p]}

\* The rows of select(Wallet).where(id.in_(wallet_ids)).with_for_update()
\* .order_by(Wallet.id) that the session has still to lock.
RowsToLock(p) ==
    {w \in {FromWallet(p), ToWallet(p)} :
        /\ w \in DOMAIN CommittedView(p)
        /\ w \notin locks[p]}

MinOf(S) == CHOOSE w \in S : \A v \in S : w <= v

\* The rows are locked in ascending order of id.
NextRowToLock(p) == MinOf(RowsToLock(p))

LockRow(p) ==
    /\ pc[p] = "lock"
    /\ RowsToLock(p) # {}
    /\ LET w == NextRowToLock(p)
       IN  /\ ~LockedByOther(p, w)
           /\ IF SerializationFailure(p, w)
              THEN Raise(p, "SERIALIZATION_FAILURE")
              ELSE /\ locks' = [locks EXCEPT ![p] = @ \cup {w}]
                   /\ identity_map' = [identity_map EXCEPT ![p] =
                          Loaded(@, w, wallets[w].balance)]
                   /\ UNCHANGED <<pc, resp, snapshot, new_wallets, new_tx,
                                  new_entries, new_log, user_wallet,
                                  system_wallet>>
    /\ UNCHANGED <<isolation_level, now, store, req, checked>>

\* The balance check with the is_system flag negated.
InsufficientFundsOfSystem(is_system, balance, amount) ==
    is_system /\ balance < amount

\* The balance check: only for non-system wallets.
InsufficientFunds(is_system, balance, amount) ==
    ~is_system /\ balance < amount

CommittedBalance(w) == IF w \in DOMAIN wallets THEN wallets[w].balance ELSE 0

ValidateTransfer(p) ==
    /\ pc[p] = "lock"
    /\ RowsToLock(p) = {}
    /\ LET from == FromWallet(p)
           to == ToWallet(p)
       IN  IF from \notin VisibleIds(p) \/ to \notin VisibleIds(p)
           THEN /\ Raise(p, "WALLET_NOT_FOUND")
                /\ UNCHANGED checked
           ELSE /\ checked' = [checked EXCEPT ![p] =
                       IF Row(p, from).is_system THEN <<>>
                       ELSE <<[wallet |-> from,
                               seen |-> identity_map[p][from].balance,
                               committed |-> CommittedBalance(from)]>>]
                /\ IF InsufficientFunds(Row(p, from).is_system,
                                        identity_map[p][from].balance,
                                        req[p].amount)
                   THEN Raise(p, "INSUFFICIENT_FUNDS")
                   ELSE /\ pc' = [pc EXCEPT ![p] = "post"]
                        /\ UNCHANGED <<resp, locks, session>>
    /\ UNCHANGED <<isolation_level, now, store, req>>

\* Transaction(...), status PENDING; transaction_id is a fresh uuid4.
NewTransaction(p, id) ==
    [id               |-> id,
     transaction_id   |-> id,
     idempotency_key  |-> req[p].idempotency_key,
     transaction_type |-> TransactionType(req[p].op),
     status           |-> "PENDING",
     from_wallet_id   |-> FromWallet(p),
     to_wallet_id     |-> ToWallet(p),
     asset_type_id    |-> AssetOf(p).id,
     amount           |-> req[p].amount,
     created_at       |-> now,
     completed_at     |-> <<>>]

\* from_wallet.balance -= amount; to_wallet.balance += amount, on the
\* objects of the identity map (one object when the two ids are equal).
Debit(im, from, amount) ==
    [im EXCEPT ![from] = [balance |-> @.balance - amount, dirty |-> TRUE]]
Credit(im, to, amount) ==
    [im EXCEPT ![to] = [balance |-> @.balance + amount, dirty |-> TRUE]]

\* A ledger entry that stores the magnitude of the amount.
LedgerEntryUnsigned(tx_id, w, entry_type, amount, balance_after) ==
    [transaction_id |-> tx_id, wallet_id |-> w, entry_type |-> entry_type,
     amount |-> IF amount < 0 THEN -amount ELSE amount,
     balance_after |-> balance_after]

LedgerEntry(tx_id, w, entry_type, amount, balance_after) ==
    [transaction_id |-> tx_id, wallet_id |-> w, entry_type |-> entry_type,
     amount |-> amount, balance_after |-> balance_after]

\* The two entries of a posting, added to the session twice.
DoubleEntryRepeated(t, im) ==
    << LedgerEntry(t.id, t.from_wallet_id, "DEBIT", -t.amount,
                   im[t.from_wallet_id].balance),
       LedgerEntry(t.id, t.to_wallet_id, "CREDIT", t.amount,
                   im[t.to_wallet_id].balance),
       LedgerEntry(t.id, t.from_wallet_id, "DEBIT", -t.amount,
                   im[t.from_wallet_id].balance),
       LedgerEntry(t.id, t.to_wallet_id, "CREDIT", t.amount,
                   im[t.to_wallet_id].balance) >>

\* The two entries of a posting with the wallets exchanged.
DoubleEntrySwapped(t, im) ==
    << LedgerEntry(t.id, t.to_wallet_id, "DEBIT", -t.amount,
                   im[t.to_wallet_id].balance),
       LedgerEntry(t.id, t.from_wallet_id, "CREDIT", t.amount,
                   im[t.from_wallet_id].balance) >>

\* The two entries of a posting, built after both balances are updated.
DoubleEntry(t, im) ==
    << LedgerEntry(t.id, t.from_wallet_id, "DEBIT", -t.amount,
                   im[t.from_wallet_id].balance),
       LedgerEntry(t.id, t.to_wallet_id, "CREDIT", t.amount,
                   im[t.to_wallet_id].balance) >>

\* A header that is left as it was inserted.
CompletedLeftPending(t) == t

\* A header marked completed without its completion time.
CompletedWithoutTime(t) == [t EXCEPT !.status = "COMPLETED"]

Completed(t) == [t EXCEPT !.status = "COMPLETED", !.completed_at = <<now>>]

\* db.add(transaction); flush: the INSERT of the header, which waits for an
\* uncommitted header with the same key and fails on a committed one.  Then
\* the balances, the ledger entries and the status COMPLETED; flush.
PostTransaction(p) ==
    /\ pc[p] = "post"
    /\ PendingKey(p, req[p].idempotency_key) = {}
    /\ tx_seq' = tx_seq + 1
    /\ IF CommittedKey(req[p].idempotency_key)
       THEN Raise(p, "INTEGRITY_ERROR:ix_transactions_idempotency_key")
       ELSE LET t == NewTransaction(p, tx_seq + 1)
                im == Credit(Debit(identity_map[p], t.from_wallet_id, t.amount),
                             t.to_wallet_id, t.amount)
            IN  /\ identity_map' = [identity_map EXCEPT ![p] = im]
                /\ new_entries' = [new_entries EXCEPT ![p] = DoubleEntry(t, im)]
                /\ new_tx' = [new_tx EXCEPT ![p] = <<Completed(t)>>]
                /\ pc' = [pc EXCEPT ![p] = "save_log"]
                /\ UNCHANGED <<resp, locks, snapshot, new_wallets, new_log,
                               user_wallet, system_wallet>>
    /\ UNCHANGED <<isolation_level, now, wallets, wallet_seq, transactions,
                   ledger_entries, idempotency_logs, req, checked>>

(***************************************************************************)
(* The handler after the service returned: the idempotency record and the  *)
(* commit.                                                                 *)
(***************************************************************************)
\* A record that lives half as long.
IdempotencyLogHalfLife(key, path, method, status, body) ==
    [idempotency_key |-> key, request_path |-> path,
     request_method |-> method, response_status |-> status,
     response_body |-> JsonDumps(body), created_at |-> now,
     expires_at |-> now + TickHours]

\* IdempotencyLog(...), expires_at = utcnow() + 24 hours.
IdempotencyLog(key, path, method, status, body) ==
    [idempotency_key |-> key, request_path |-> path,
     request_method |-> method, response_status |-> status,
     response_body |-> JsonDumps(body), created_at |-> now,
     expires_at |-> now + TTL_HOURS]

\* _save_idempotency_log: db.add(log); flush.
SaveIdempotencyLog(p) ==
    /\ pc[p] = "save_log"
    /\ PendingLog(p, req[p].idempotency_key) = {}
    /\ IF CommittedLog(req[p].idempotency_key)
       THEN Raise(p, "INTEGRITY_ERROR:ix_idempotency_logs_idempotency_key")
       ELSE /\ new_log' = [new_log EXCEPT ![p] =
                   <<IdempotencyLog(req[p].idempotency_key,
                                    RequestPath(req[p].op), "POST",
                                    HTTP_201_CREATED,
                                    ModelDumpJson(TransactionResponse(new_tx[p][1])))>>]
            /\ pc' = [pc EXCEPT ![p] = "commit"]
            /\ UNCHANGED <<resp, locks, snapshot, identity_map, new_wallets,
                           new_tx, new_entries, user_wallet, system_wallet>>
    /\ UNCHANGED <<isolation_level, now, store, req, checked>>

\* A commit that drops the rows p inserted.
WalletsAfterCommitWithoutInserts(p) ==
    [w \in DOMAIN wallets |->
        IF w \in DOMAIN identity_map[p] /\ identity_map[p][w].dirty
        THEN [wallets[w] EXCEPT !.balance = identity_map[p][w].balance]
        ELSE wallets[w]]

\* The wallets table after the commit of p: the rows p inserted, and the
\* balances of the objects p changed.
WalletsAfterCommit(p) ==
    [w \in DOMAIN wallets \cup DOMAIN new_wallets[p] |->
        LET row == IF w \in DOMAIN new_wallets[p] THEN new_wallets[p][w]
                   ELSE wallets[w]
        IN  IF w \in DOMAIN identity_map[p] /\ identity_map[p][w].dirty
            THEN [row EXCEPT !.balance = identity_map[p][w].balance]
            ELSE row]

\* A commit that replaces the ledger by the entries of the session.
CommitSessionReplacingEntries(p) ==
    /\ wallets' = WalletsAfterCommit(p)
    /\ transactions' = transactions \o new_tx[p]
    /\ ledger_entries' = IF new_entries[p] = <<>> THEN ledger_entries
                         ELSE new_entries[p]
    /\ idempotency_logs' = idempotency_logs \cup {new_log[p][i] : i \in DOMAIN new_log[p]}
    /\ CloseSession(p)

\* A commit that leaves the header out.
CommitSessionWithoutHeader(p) ==
    /\ wallets' = WalletsAfterCommit(p)
    /\ transactions' = transactions
    /\ ledger_entries' = ledger_entries \o new_entries[p]
    /\ idempotency_logs' = idempotency_logs \cup {new_log[p][i] : i \in DOMAIN new_log[p]}
    /\ CloseSession(p)

\* Everything the session wrote becomes visible at once.
CommitSession(p) ==
    /\ wallets' = WalletsAfterCommit(p)
    /\ transactions' = transactions \o new_tx[p]
    /\ ledger_entries' = ledger_entries \o new_entries[p]
    /\ idempotency_logs' = idempotency_logs \cup {new_log[p][i] : i \in DOMAIN new_log[p]}
    /\ CloseSession(p)

\* await db.commit(); return response.
Commit(p) ==
    /\ pc[p] = "commit"
    /\ CommitSession(p)
    /\ Respond(p, HTTP_201_CREATED, "", FALSE,
               <<ModelDumpJson(TransactionResponse(new_tx[p][1]))>>)
    /\ UNCHANGED <<isolation_level, now, wallet_seq, tx_seq, req, checked>>

\* get_wallet_balance: the commit of the wallet created on read.
CommitWallet(p) ==
    /\ pc[p] = "commit_wallet"
    /\ CommitSession(p)
    /\ LET w == user_wallet[p]
       IN  Respond(p, HTTP_200_OK, "", FALSE,
               <<WalletBalanceResponse(w, Row(p, w), identity_map[p][w].balance,
                                       req[p].asset_type_code)>>)
    /\ UNCHANGED <<isolation_level, now, wallet_seq, tx_seq, req, checked>>

(***************************************************************************)
(* The store's deadlock detector.                                          *)
(***************************************************************************)
\* The sessions whose lock or uncommitted row the next statement of p
\* waits for.
Blockers(p) ==
    CASE pc[p] \in {"user_sel", "sys_sel"} ->
            LET w == FindWallet(p, TargetUserId(p), AssetOf(p).id)
            IN  {q \in Procs \ {p} : w \in locks[q]}
      [] pc[p] \in {"user_ins", "sys_ins"} ->
            PendingDuplicate(p, TargetUserId(p), AssetOf(p).id)
      [] pc[p] = "lock" ->
            IF RowsToLock(p) = {} THEN {}
            ELSE {q \in Procs \ {p} : NextRowToLock(p) \in locks[q]}
      [] pc[p] = "post" -> PendingKey(p, req[p].idempotency_key)
      [] pc[p] = "save_log" -> PendingLog(p, req[p].idempotency_key)
      [] OTHER -> {}

RECURSIVE WaitsForClosure(_, _)
WaitsForClosure(S, n) ==
    IF n = 0 THEN S
    ELSE WaitsForClosure(S \cup UNION {Blockers(q) : q \in S}, n - 1)

\* p waits, directly or not, for a session that waits for p.
Deadlocked(p) == p \in WaitsForClosure(Blockers(p), NumRequests)

\* The store aborts a statement found in a cycle of waits ("deadlock
\* detected"); the handler rolls back and answers 500.
DeadlockDetected(p) ==
    /\ Deadlocked(p)
    /\ Raise(p, "DEADLOCK_DETECTED")
    /\ UNCHANGED <<isolation_level, now, store, req, checked>>

(***************************************************************************)
(* Cancellation.                                                           *)
(***************************************************************************)
\* A mutating request is cancelled at one of its awaits (client disconnect,
\* deadline): CancelledError is not an Exception, so no clause of the
\* handler runs; the session is closed, which rolls its transaction back,
\* and no response is sent.
Cancel(p) ==
    /\ req[p].op \in MutatingOps
    /\ pc[p] \notin {"idle", "done"}
    /\ Respond(p, 0, "CANCELLED", FALSE, <<>>)
    /\ CloseSession(p)
    /\ UNCHANGED <<isolation_level, now, store, req, checked>>

(***************************************************************************)
(* Time passes.                                                            *)
(***************************************************************************)
\* The clock matters through the comparison with expires_at only: it advances
\* while a record is unexpired, in steps of half the time to live.
Tick ==
    /\ now < MaxTicks * TickHours
    /\ \E l \in idempotency_logs : l.expires_at > now
    /\ now' = now + TickHours
    /\ UNCHANGED <<isolation_level, store, locks, pc, req, resp, session,
                   checked>>

\* The wallets a history request reads: those of the user, of the asset when
\* the request names one.
HistoryWallets(uid, code) ==
    {w \in DOMAIN wallets :
        /\ wallets[w].user_id = uid
        /\ code # "" =>
              \E a \in GetAssetTypeByCode(code) : wallets[w].asset_type_id = a.id}

\* The committed headers from or to one of the wallets W.
HeadersOfWallets(W) ==
    {j \in DOMAIN transactions :
        \/ transactions[j].from_wallet_id \in W
        \/ transactions[j].to_wallet_id \in W}

\* Both directions in which the store may return rows of equal created_at.
TieOrders == {"id_asc", "id_desc"}

\* Header j is returned before header k.
OrderedBefore(j, k, ties) ==
    \/ transactions[j].created_at > transactions[k].created_at
    \/ /\ transactions[j].created_at = transactions[k].created_at
       /\ IF ties = "id_asc" THEN j < k ELSE j > k

\* The place of each of the headers lo..hi among the headers S under the
\* order OrderedBefore: 0 for a header that is not in S.
RECURSIVE Places(_, _, _, _)
Places(S, ties, lo, hi) ==
    IF lo > hi THEN <<>>
    ELSE IF lo = hi
    THEN << IF lo \in S
            THEN 1 + Cardinality({k \in S : OrderedBefore(k, lo, ties)})
            ELSE 0 >>
    ELSE LET mid == (lo + hi) \div 2
         IN  Places(S, ties, lo, mid)
                \o Places(S, ties, mid + 1, hi)

\* The headers S by their places.
RowsByPlace(S, places) ==
    [i \in 1..Cardinality(S) |-> CHOOSE j \in S : places[j] = i]

\* .order_by(Transaction.created_at.desc()): the headers S, newest first.
OrderByCreatedAtDesc(S, ties) ==
    RowsByPlace(S, Places(S, ties, 1, Len(transactions)))

\* A limit passed on as requested.
UncappedLimit(limit) == limit

\* min(limit, 100), in the handler.
CappedLimit(limit) == IF limit < 100 THEN limit ELSE 100

\* .limit(limit).offset(offset) on the ordered rows.
LimitOffset(rows, limit, offset) ==
    LET last == IF offset + limit < Len(rows) THEN offset + limit
                ELSE Len(rows)
    IN  SubSeq(rows, offset + 1, last)

\* get_transaction_history: the asset lookup when a code is given, the
\* wallets of the user, then the page of the transactions from or to one of
\* them.  The store refuses a negative LIMIT or OFFSET.  Nothing is written.
GetTransactionHistory(p, uid, code, limit, offset, ties) ==
    /\ MayArrive(p)
    /\ req' = [req EXCEPT ![p] = [op |-> "history", user_id |-> uid,
                                  asset_type_code |-> code, amount |-> 0,
                                  idempotency_key |-> "",
                                  limit |-> limit, offset |-> offset]]
    /\ IF code # "" /\ GetAssetTypeByCode(code) = {}
       THEN Respond(p, ErrorStatus("history", "ASSET_NOT_FOUND"),
                    "ASSET_NOT_FOUND", FALSE, <<>>)
       ELSE IF HistoryWallets(uid, code) = {}
       THEN Respond(p, HTTP_200_OK, "", FALSE, << <<>> >>)
       ELSE IF CappedLimit(limit) < 0
       THEN Respond(p, ErrorStatus("history", "DATA_ERROR:limit"),
                    "DATA_ERROR:limit", FALSE, <<>>)
       ELSE IF offset < 0
       THEN Respond(p, ErrorStatus("history", "DATA_ERROR:offset"),
                    "DATA_ERROR:offset", FALSE, <<>>)
       ELSE LET rows == LimitOffset(
                            OrderByCreatedAtDesc(
                                HeadersOfWallets(HistoryWallets(uid, code)), ties),
                            CappedLimit(limit), offset)
            IN  Respond(p, HTTP_200_OK, "", FALSE,
                    <<[i \in DOMAIN rows |->
                        ModelDumpJson(TransactionResponse(transactions[rows[i]]))]>>)
    /\ UNCHANGED <<isolation_level, now, store, locks, session, checked>>

\* The requests that arrive: any operation for the users U, the asset codes C
\* and the amounts A.
Arrive(P, U, C, A) ==
    \/ \E p \in P, op \in MutatingOps, uid \in U, code \in C, amount \in A :
         \E key \in IdempotencyKeys(p) :
            BeginMutating(p, op, uid, code, amount, key)
    \/ \E p \in P, uid \in U, code \in C : BeginBalance(p, uid, code)

\* One statement of a request in flight.
Step ==
    \/ \E p \in Procs : ReadUserWallet(p)
    \/ \E p \in Procs : SelectWalletForUpdate(p)
    \/ \E p \in Procs : InsertWallet(p)
    \/ \E p \in Procs : LockRow(p)
    \/ \E p \in Procs : ValidateTransfer(p)
    \/ \E p \in Procs : PostTransaction(p)
    \/ \E p \in Procs : SaveIdempotencyLog(p)
    \/ \E p \in Procs : Commit(p)
    \/ \E p \in Procs : CommitWallet(p)

\* Requests of ordinary users on the active asset.
Next ==
    \/ Arrive(Procs, OrdinaryUserIds, {"GOLD_COIN"}, {1000})
    \/ Step
    \/ Tick

Spec == Init /\ [][Next]_vars

\* Requests of ordinary users on the active asset, any of which may be
\* cancelled while in flight.
NextCancel ==
    \/ Arrive(Procs, OrdinaryUserIds, {"GOLD_COIN"}, {1000})
    \/ Step
    \/ \E p \in Procs : Cancel(p)

SpecCancel == Init /\ [][NextCancel]_vars

(***************************************************************************)
(* Request validation: the amount of TopupRequest, BonusRequest and        *)
(* SpendRequest, a Decimal given by its sign, coefficient and exponent     *)
(* (Decimal.as_tuple()).                                                   *)
(***************************************************************************)
\* 10, 10.00, 0.5, 10.005, 10.000, 0, 0.00 and -10.
DecimalInputs ==
    { [sign |-> 0, coefficient |-> 10,    exponent |-> 0],
      [sign |-> 0, coefficient |-> 1000,  exponent |-> -2],
      [sign |-> 0, coefficient |-> 5,     exponent |-> -1],
      [sign |-> 0, coefficient |-> 10005, exponent |-> -3],
      [sign |-> 0, coefficient |-> 10000, exponent |-> -3],
      [sign |-> 0, coefficient |-> 0,     exponent |-> 0],
      [sign |-> 0, coefficient |-> 0,     exponent |-> -2],
      [sign |-> 1, coefficient |-> 10,    exponent |-> 0] }

RECURSIVE Pow10(_)
Pow10(n) == IF n <= 0 THEN 1 ELSE 10 * Pow10(n - 1)

\* A validator that checks the sign only.
validate_amount_sign_only(v) ==
    ~(v.sign = 1 \/ v.coefficient = 0)

\* Field(gt=0) and validate_amount: v <= 0 is refused, and so is an exponent
\* below -2.
validate_amount(v) ==
    /\ ~(v.sign = 1 \/ v.coefficient = 0)
    /\ ~(v.exponent < -2)

\* The amount in hundredths, the unit of the balances of the model; digits
\* beyond the second are rounded half up as by the column Numeric(20, 2).
Hundredths(v) ==
    LET k == -(v.exponent + 2)
        magnitude == IF k <= 0
                     THEN v.coefficient * Pow10(-k)
                     ELSE (v.coefficient + 5 * Pow10(k - 1)) \div Pow10(k)
    IN  IF v.sign = 1 THEN -magnitude ELSE magnitude

\* The request body fails validation: the framework answers before the
\* handler is entered (the status is the framework's and is not modelled).
ValidationError(p, op, uid, code, v, key) ==
    /\ MayArrive(p)
    /\ req' = [req EXCEPT ![p] = [op |-> op, user_id |-> uid,
                                  asset_type_code |-> code, amount |-> 0,
                                  idempotency_key |-> key]]
    /\ Respond(p, 0, "VALIDATION_ERROR", FALSE, <<v>>)
    /\ UNCHANGED <<isolation_level, now, store, locks, session, checked>>

\* A mutating request arrives with its amount as sent.
ArriveWithDecimal(p, op, uid, code, v, key) ==
    IF validate_amount(v)
    THEN BeginMutating(p, op, uid, code, Hundredths(v), key)
    ELSE ValidationError(p, op, uid, code, v, key)

\* Requests of ordinary users on the active asset with amounts of every
\* form; one request fewer.
NextAmounts ==
    \/ \E p \in 1..(NumRequests - 1), op \in MutatingOps,
          uid \in OrdinaryUserIds, v \in DecimalInputs :
          \E key \in IdempotencyKeys(p) :
             ArriveWithDecimal(p, op, uid, "GOLD_COIN", v, key)
    \/ \E p \in 1..(NumRequests - 1), uid \in OrdinaryUserIds :
          BeginBalance(p, uid, "GOLD_COIN")
    \/ Step

SpecAmounts == Init /\ [][NextAmounts]_vars

(***************************************************************************)
(* A store initialised by scripts/seed.py.                                 *)
(***************************************************************************)
\* The balance the seed gives the Treasury and the Bonus Pool, in
\* hundredths.  The seed's 999999999.00 is beyond the integers of the
\* checker; the model keeps 9999999.00.
SeedSystemBalance == 999999900

\* The wallets the seed commits for GOLD_COIN, in the order it adds them:
\* the three system wallets, then the test users.  It adds no Transaction
\* and no LedgerEntry.
seed_database ==
    << [user_id |-> "SYSTEM_TREASURY_GOLD_COIN", asset_type_id |-> 1,
        balance |-> SeedSystemBalance, is_system |-> TRUE, version |-> 0],
       [user_id |-> "SYSTEM_BONUS_POOL_GOLD_COIN", asset_type_id |-> 1,
        balance |-> SeedSystemBalance, is_system |-> TRUE, version |-> 0],
       [user_id |-> "SYSTEM_REVENUE_GOLD_COIN", asset_type_id |-> 1,
        balance |-> 0, is_system |-> TRUE, version |-> 0],
       [user_id |-> "user_alice", asset_type_id |-> 1,
        balance |-> 100000, is_system |-> FALSE, version |-> 0],
       [user_id |-> "user_bob", asset_type_id |-> 1,
        balance |-> 75000, is_system |-> FALSE, version |-> 0],
       [user_id |-> "user_charlie", asset_type_id |-> 1,
        balance |-> 250000, is_system |-> FALSE, version |-> 0] >>

SeededUserIds == {"user_alice", "alice"}

InitSeeded ==
    /\ isolation_level \in IsolationLevels
    /\ now = 0
    /\ wallets = seed_database
    /\ wallet_seq = Len(seed_database)
    /\ transactions = <<>>
    /\ tx_seq = 0
    /\ ledger_entries = <<>>
    /\ idempotency_logs = {}
    /\ locks = [p \in Procs |-> {}]
    /\ pc = [p \in Procs |-> "idle"]
    /\ req = [p \in Procs |-> NoRequest]
    /\ resp = [p \in Procs |-> NoResponse]
    /\ snapshot = [p \in Procs |-> NoFunction]
    /\ identity_map = [p \in Procs |-> NoFunction]
    /\ new_wallets = [p \in Procs |-> NoFunction]
    /\ new_tx = [p \in Procs |-> <<>>]
    /\ new_entries = [p \in Procs |-> <<>>]
    /\ new_log = [p \in Procs |-> <<>>]
    /\ user_wallet = [p \in Procs |-> 0]
    /\ system_wallet = [p \in Procs |-> 0]
    /\ checked = [p \in Procs |-> <<>>]

\* Requests of a seeded user and of a new one on the seeded store; one
\* request fewer.
NextSeeded ==
    \/ Arrive(1..(NumRequests - 1), SeededUserIds, {"GOLD_COIN"}, {1000})
    \/ Step

SpecSeeded == InitSeeded /\ [][NextSeeded]_vars

\* Requests of two seeded users and of a new one on the seeded store; one
\* request fewer.
DisjointUserIds == SeededUserIds \cup {"user_bob"}

NextDisjoint ==
    \/ Arrive(1..(NumRequests - 1), DisjointUserIds, {"GOLD_COIN"}, {1000})
    \/ Step

SpecDisjoint == InitSeeded /\ [][NextDisjoint]_vars

(***************************************************************************)
(* A store with a history: earlier topups of 10.00, one an hour, each      *)
(* under a key of its own.                                                 *)
(***************************************************************************)
MaxHistory == 106

\* The numbers of earlier topups: none, four, and so many that one user has
\* more headers than the cap of the history query.
HistorySizes == {0, 4, MaxHistory}

\* The third topup and every twenty-fifth after it are bob's, the others
\* alice's.
ToBob(i) == i % 25 = 3

\* How many of the first i topups were bob's.
TopupsOfBob(i) == (i + 22) \div 25

\* The wallets are created at their first topup: alice's (1) and the
\* Treasury's (2) at the first, bob's (3) at the third.
EarlierUserWallet(i) == IF ToBob(i) THEN 3 ELSE 1

\* The header of the i-th earlier topup, committed at hour i - 1.
EarlierTopup(i) ==
    [id               |-> i,
     transaction_id   |-> i,
     idempotency_key  |-> IdempotencyKey(NumRequests + i),
     transaction_type |-> "TOPUP",
     status           |-> "COMPLETED",
     from_wallet_id   |-> 2,
     to_wallet_id     |-> EarlierUserWallet(i),
     asset_type_id    |-> 1,
     amount           |-> 1000,
     created_at       |-> i - 1,
     completed_at     |-> <<i - 1>>]

\* The k-th ledger entry: the debit and the credit of topup (k + 1) \div 2.
EarlierEntry(k) ==
    LET i == (k + 1) \div 2
    IN  IF k % 2 = 1
        THEN LedgerEntry(i, 2, "DEBIT", -1000, -1000 * i)
        ELSE LedgerEntry(i, EarlierUserWallet(i), "CREDIT", 1000,
                         1000 * (IF ToBob(i) THEN TopupsOfBob(i)
                                 ELSE i - TopupsOfBob(i)))

\* The idempotency record of the i-th earlier topup.
EarlierLog(i) ==
    [idempotency_key |-> IdempotencyKey(NumRequests + i),
     request_path |-> RequestPath("topup"),
     request_method |-> "POST", response_status |-> HTTP_201_CREATED,
     response_body |-> JsonDumps(ModelDumpJson(TransactionResponse(EarlierTopup(i)))),
     created_at |-> i - 1,
     expires_at |-> i - 1 + TTL_HOURS]

\* The wallets after n earlier topups.
EarlierWallets(n) ==
    LET alice == [NewWallet("alice", 1, FALSE)
                     EXCEPT !.balance = 1000 * (n - TopupsOfBob(n))]
        treasury == [NewWallet("SYSTEM_TREASURY_GOLD_COIN", 1, TRUE)
                        EXCEPT !.balance = -1000 * n]
        bob == [NewWallet("bob", 1, FALSE)
                   EXCEPT !.balance = 1000 * TopupsOfBob(n)]
    IN  IF n = 0 THEN NoFunction
        ELSE IF n < 3 THEN <<alice, treasury>>
        ELSE <<alice, treasury, bob>>

InitHistory ==
    /\ isolation_level \in IsolationLevels
    /\ \E n \in HistorySizes :
          /\ now = n
          /\ wallets = EarlierWallets(n)
          /\ wallet_seq = Len(EarlierWallets(n))
          /\ transactions = [i \in 1..n |-> EarlierTopup(i)]
          /\ tx_seq = n
          /\ ledger_entries = [k \in 1..(2 * n) |-> EarlierEntry(k)]
          /\ idempotency_logs = {EarlierLog(i) : i \in 1..n}
    /\ locks = [p \in Procs |-> {}]
    /\ pc = [p \in Procs |-> "idle"]
    /\ req = [p \in Procs |-> NoRequest]
    /\ resp = [p \in Procs |-> NoResponse]
    /\ snapshot = [p \in Procs |-> NoFunction]
    /\ identity_map = [p \in Procs |-> NoFunction]
    /\ new_wallets = [p \in Procs |-> NoFunction]
    /\ new_tx = [p \in Procs |-> <<>>]
    /\ new_entries = [p \in Procs |-> <<>>]
    /\ new_log = [p \in Procs |-> <<>>]
    /\ user_wallet = [p \in Procs |-> 0]
    /\ system_wallet = [p \in Procs |-> 0]
    /\ checked = [p \in Procs |-> <<>>]

\* The store a day after one topup of alice: its idempotency record has
\* just expired and is still in the table.
InitExpired ==
    /\ isolation_level \in IsolationLevels
    /\ now = TTL_HOURS
    /\ wallets = EarlierWallets(1)
    /\ wallet_seq = Len(EarlierWallets(1))
    /\ transactions = <<EarlierTopup(1)>>
    /\ tx_seq = 1
    /\ ledger_entries = <<EarlierEntry(1), EarlierEntry(2)>>
    /\ idempotency_logs = {EarlierLog(1)}
    /\ locks = [p \in Procs |-> {}]
    /\ pc = [p \in Procs |-> "idle"]
    /\ req = [p \in Procs |-> NoRequest]
    /\ resp = [p \in Procs |-> NoResponse]
    /\ snapshot = [p \in Procs |-> NoFunction]
    /\ identity_map = [p \in Procs |-> NoFunction]
    /\ new_wallets = [p \in Procs |-> NoFunction]
    /\ new_tx = [p \in Procs |-> <<>>]
    /\ new_entries = [p \in Procs |-> <<>>]
    /\ new_log = [p \in Procs |-> <<>>]
    /\ user_wallet = [p \in Procs |-> 0]
    /\ system_wallet = [p \in Procs |-> 0]
    /\ checked = [p \in Procs |-> <<>>]

\* The key of the earlier topup.
EarlierKey == IdempotencyKey(NumRequests + 1)

\* Requests of alice and of carol, who has no wallet, of two amounts, under
\* the key of the earlier topup or a key of their own; one request fewer.
NextExpired ==
    \/ \E p \in 1..(NumRequests - 1), op \in MutatingOps,
          uid \in {"alice", "carol"}, amount \in Amounts :
          \E key \in {IdempotencyKey(p), EarlierKey} :
             BeginMutating(p, op, uid, "GOLD_COIN", amount, key)
    \/ \E p \in 1..(NumRequests - 1), uid \in {"alice", "carol"} :
          BeginBalance(p, uid, "GOLD_COIN")
    \/ Step

SpecExpired == InitExpired /\ [][NextExpired]_vars

HistoryUserIds == {"alice", "bob", "carol"}

\* The limit and the offset of a history request: the defaults, a limit
\* above the cap, a short page, a page past the first hundred, an empty
\* page, and negative values.
Pages == { <<50, 0>>, <<1000, 0>>, <<2, 1>>, <<1000, 100>>, <<0, 0>>,
           <<-1, 0>>, <<50, -1>> }

\* One history request on the store.
NextHistory ==
    \E uid \in HistoryUserIds, code \in {"", "GOLD_COIN", "DIAMOND"},
       page \in Pages, ties \in TieOrders :
       GetTransactionHistory(1, uid, code, page[1], page[2], ties)

SpecHistory == InitHistory /\ [][NextHistory]_vars

\* Requests whose user_id may be the name of a system wallet, whose asset
\* code may be inactive or absent, of two amounts, and history requests; one
\* request fewer.
NextWide ==
    \/ Arrive(1..(NumRequests - 1), UserIds, AssetCodes, Amounts)
    \/ \E p \in 1..(NumRequests - 1), uid \in UserIds,
          code \in AssetCodes \cup {""}, ties \in TieOrders :
          GetTransactionHistory(p, uid, code, 50, 0, ties)
    \/ Step
    \/ \E p \in Procs : DeadlockDetected(p)
    \/ Tick

SpecWide == Init /\ [][NextWide]_vars

(***************************************************************************)
(* The committed store, as the properties read it.                         *)
(***************************************************************************)
AllKeys == {IdempotencyKey(i) : i \in Procs}

AmountsOf(s) == [i \in DOMAIN s |-> s[i].amount]

EntriesOfWallet(w) == SelectSeq(ledger_entries, LAMBDA e : e.wallet_id = w)

EntriesOfTransaction(id) ==
    SelectSeq(ledger_entries, LAMBDA e : e.transaction_id = id)

HeadersOfKey(k) ==
    {i \in DOMAIN transactions : transactions[i].idempotency_key = k}

LogsOfKey(k) == {l \in idempotency_logs : l.idempotency_key = k}

EntriesOfKey(k) ==
    SelectSeq(ledger_entries,
              LAMBDA e : \E i \in HeadersOfKey(k) :
                            transactions[i].id = e.transaction_id)

EntriesOfAsset(aid) ==
    SelectSeq(ledger_entries,
              LAMBDA e : /\ e.wallet_id \in DOMAIN wallets
                         /\ wallets[e.wallet_id].asset_type_id = aid)

LedgerSum(w) == SumSeq(AmountsOf(EntriesOfWallet(w)))

\* q is the request that committed the transfer of the key it carries.
Committed(q) ==
    /\ pc[q] = "done"
    /\ req[q].op \in MutatingOps
    /\ resp[q].status = HTTP_201_CREATED
    /\ ~resp[q].cached

OneHeaderPerKey ==
    \A k \in AllKeys :
        /\ Cardinality(HeadersOfKey(k)) <= 1
        /\ Len(EntriesOfKey(k)) <= 2

\* C3, its case: a second request carried a key whose transfer is committed,
\* got past the idempotency lookup, and left no second header.
SecondRequestSameKey ==
    \E p, q \in Procs :
        /\ p # q
        /\ Committed(q)
        /\ req[p].idempotency_key = req[q].idempotency_key
        /\ pc[p] = "done"
        /\ resp[p].error = "INTEGRITY_ERROR:ix_transactions_idempotency_key"
        /\ Cardinality(HeadersOfKey(req[q].idempotency_key)) = 1

(***************************************************************************)
(* C4: a request that carries the key of a committed transfer while the    *)
(* idempotency record of the key is unexpired is answered with the body of *)
(* the first response, and leaves the store as it was.                     *)
(***************************************************************************)
\* p arrives with a key whose record is committed and unexpired.
ArrivesWithRecordedKey(p) ==
    /\ pc[p] = "idle"
    /\ pc'[p] # "idle"
    /\ req'[p].op \in MutatingOps
    /\ \E l \in idempotency_logs :
          /\ l.idempotency_key = req'[p].idempotency_key
          /\ l.expires_at > now

ReplayReturnsFirstResponse ==
    [][\A p \in Procs :
          ArrivesWithRecordedKey(p) =>
             /\ pc'[p] = "done"
             /\ resp'[p].status = HTTP_201_CREATED
             /\ \E q \in Procs \ {p} :
                   /\ Committed(q)
                   /\ req[q].idempotency_key = req'[p].idempotency_key
                   /\ resp'[p].body = resp[q].body
             /\ UNCHANGED store]_vars

\* C4, its case: a request was answered from the idempotency record of a
\* committed transfer.
Replayed ==
    \E p, q \in Procs :
        /\ p # q
        /\ Committed(q)
        /\ pc[p] = "done"
        /\ resp[p].cached
        /\ req[p].idempotency_key = req[q].idempotency_key
        /\ resp[p].body = resp[q].body
        /\ resp[p].body # <<>>

OneDebitOneCredit ==
    \A i \in DOMAIN transactions :
        transactions[i].status = "COMPLETED" =>
            LET t == transactions[i]
                es == EntriesOfTransaction(t.id)
            IN  /\ Len(es) = 2
                /\ \E d, c \in 1..2 :
                      /\ d # c
                      /\ es[d].entry_type = "DEBIT"
                      /\ es[d].amount = -t.amount
                      /\ es[d].wallet_id = t.from_wallet_id
                      /\ es[c].entry_type = "CREDIT"
                      /\ es[c].amount = t.amount
                      /\ es[c].wallet_id = t.to_wallet_id

\* C6, its case: a COMPLETED spend that follows a COMPLETED credit of the
\* user wallet it debits.
CompletedSpendAfterCredit ==
    \E i, j \in DOMAIN transactions :
        /\ i < j
        /\ transactions[i].status = "COMPLETED"
        /\ transactions[j].status = "COMPLETED"
        /\ transactions[j].transaction_type = "SPEND"
        /\ transactions[i].to_wallet_id = transactions[j].from_wallet_id
        /\ transactions[j].from_wallet_id # transactions[j].to_wallet_id

(***************************************************************************)
(* C7: in every committed state, for each asset type, the amounts of all   *)
(* ledger entries of the wallets of that asset sum to zero.                *)
(***************************************************************************)
ConservationPerAsset ==
    /\ \A a \in asset_types : SumSeq(AmountsOf(EntriesOfAsset(a.id))) = 0
    /\ \A n \in DOMAIN ledger_entries :
          ledger_entries[n].wallet_id \in DOMAIN wallets

\* C7, its case: two transfers of different amounts are posted on the asset.
TwoTransfersPosted ==
    \E a \in asset_types :
        /\ Len(EntriesOfAsset(a.id)) = 4
        /\ \E i, j \in DOMAIN transactions :
              transactions[i].amount # transactions[j].amount

(***************************************************************************)
(* C8: no set of concurrent requests, whatever user ids they name, reaches *)
(* a state in which requests wait for each other in a cycle, and no        *)
(* deadlock failure is returned to a caller.                               *)
(***************************************************************************)
NoLockWaitCycle ==
    \A p \in Procs :
        /\ ~Deadlocked(p)
        /\ resp[p].error # "DEADLOCK_DETECTED"

LosesKeyRace(p) ==
    /\ pc[p] = "post"
    /\ pc'[p] = "done"
    /\ \E q \in Procs \ {p} :
          /\ Committed(q)
          /\ req[q].idempotency_key = req[p].idempotency_key
    /\ \E l \in LogsOfKey(req[p].idempotency_key) : l.expires_at > now

LoserReturnsCachedBody ==
    [][\A p \in Procs :
          LosesKeyRace(p) =>
             /\ resp'[p].error = ""
             /\ resp'[p].cached
             /\ \E q \in Procs \ {p} :
                   /\ Committed(q)
                   /\ req[q].idempotency_key = req[p].idempotency_key
                   /\ resp'[p].body = resp[q].body]_vars

(***************************************************************************)
(* C11: a spend whose amount exceeds the balance of the non-system user    *)
(* wallet is refused with INSUFFICIENT_FUNDS, status 400, and leaves the   *)
(* committed state as it was: no balance, header, ledger entry or          *)
(* idempotency record is written, then or later.                           *)
(***************************************************************************)
\* p is a spend at the balance check, and the balance of its user wallet is
\* below the amount.
SpendAboveBalance(p) ==
    /\ req[p].op = "spend"
    /\ pc[p] = "lock"
    /\ RowsToLock(p) = {}
    /\ pc'[p] # "lock"
    /\ FromWallet(p) \in VisibleIds(p)
    /\ ToWallet(p) \in VisibleIds(p)
    /\ ~Row(p, FromWallet(p)).is_system
    /\ identity_map[p][FromWallet(p)].balance < req[p].amount

ClientErrors == {"ASSET_NOT_FOUND", "WALLET_NOT_FOUND", "INSUFFICIENT_FUNDS"}

NoRecordOfClientError ==
    /\ \A l \in idempotency_logs :
          /\ l.response_status = HTTP_201_CREATED
          /\ \E q \in Procs :
                /\ Committed(q)
                /\ req[q].idempotency_key = l.idempotency_key
    /\ \A p \in Procs :
          (pc[p] = "done" /\ resp[p].cached) =>
              \E q \in Procs \ {p} :
                  /\ Committed(q)
                  /\ req[q].idempotency_key = req[p].idempotency_key
    /\ \A p \in Procs :
          (pc[p] = "done" /\ resp[p].error \in ClientErrors) =>
              /\ ~resp[p].cached
              /\ \A l \in LogsOfKey(req[p].idempotency_key) :
                    \E q \in Procs \ {p} :
                        /\ Committed(q)
                        /\ req[q].idempotency_key = req[p].idempotency_key

\* C12, its case: a spend was refused for want of a wallet, and a later
\* spend with the same key, after a topup under another key, has committed.
RetryWithSameKeyCommitted ==
    \E q, p \in Procs :
        /\ q < p
        /\ req[q].op = "spend" /\ req[p].op = "spend"
        /\ req[q].idempotency_key = req[p].idempotency_key
        /\ req[q].user_id = req[p].user_id
        /\ pc[q] = "done"
        /\ resp[q].error = "WALLET_NOT_FOUND"
        /\ Committed(p)
        /\ Cardinality(HeadersOfKey(req[p].idempotency_key)) = 1

(***************************************************************************)
(* C13: a spend for a (user_id, asset) pair that has no wallet is refused  *)
(* with WALLET_NOT_FOUND, status 404, and creates nothing: no wallet, no   *)
(* header, no ledger entry and no idempotency record, and no insert was    *)
(* attempted.                                                              *)
(***************************************************************************)
\* p is a spend at the resolution of its user wallet, and the store holds no
\* wallet of its user and asset.
SpendWithoutWallet(p) ==
    /\ req[p].op = "spend"
    /\ pc[p] \in {"user_read", "user_sel"}
    /\ pc'[p] # pc[p]
    /\ ~CommittedDuplicate(req[p].user_id, AssetOf(p).id)

SpendWithoutWalletRefused ==
    [][\A p \in Procs :
          SpendWithoutWallet(p) =>
             /\ pc'[p] = "done"
             /\ resp'[p].status = HTTP_404
             /\ resp'[p].error = "WALLET_NOT_FOUND"
             /\ new_wallets[p] = NoFunction
             /\ new_wallets'[p] = NoFunction
             /\ new_tx'[p] = <<>>
             /\ new_log'[p] = <<>>
             /\ UNCHANGED store]_vars

\* C13, its case: a spend on the empty store was refused and the store is
\* still empty, its sequences untouched.
SpendOnEmptyStoreRefused ==
    \E p \in Procs :
        /\ pc[p] = "done"
        /\ req[p].op = "spend"
        /\ resp[p].status = HTTP_404
        /\ resp[p].error = "WALLET_NOT_FOUND"
        /\ wallets = NoFunction
        /\ wallet_seq = 0
        /\ transactions = <<>>
        /\ ledger_entries = <<>>
        /\ idempotency_logs = {}

(***************************************************************************)
(* C14: each operation posts between the wallets and with the kind of the  *)
(* table (topup: SYSTEM_TREASURY_<code> to the user, TOPUP; bonus:         *)
(* SYSTEM_BONUS_POOL_<code> to the user, BONUS; spend: the user to         *)
(* SYSTEM_REVENUE_<code>, SPEND), and a successful operation with amount A *)
(* changes the committed balance of the user wallet by +A (topup, bonus)   *)
(* or -A (spend) and that of the system counterparty by the opposite.      *)
(***************************************************************************)
\* The commit of a transfer by p.
CommitsTransfer(p) == pc[p] = "commit" /\ pc'[p] = "done"

\* The header p commits has the wallets and the kind of the table.
PostsByTable(p) ==
    LET t == new_tx[p][1]
        from == wallets'[t.from_wallet_id]
        to == wallets'[t.to_wallet_id]
        code == req[p].asset_type_code
    IN  /\ t.amount = req[p].amount
        /\ req[p].op = "topup" =>
              /\ t.transaction_type = "TOPUP"
              /\ from.user_id = "SYSTEM_TREASURY_" \o code
              /\ to.user_id = req[p].user_id
        /\ req[p].op = "bonus" =>
              /\ t.transaction_type = "BONUS"
              /\ from.user_id = "SYSTEM_BONUS_POOL_" \o code
              /\ to.user_id = req[p].user_id
        /\ req[p].op = "spend" =>
              /\ t.transaction_type = "SPEND"
              /\ from.user_id = req[p].user_id
              /\ to.user_id = "SYSTEM_REVENUE_" \o code

\* The commit of p moves the amount between the two committed balances.
MovesAmount(p) ==
    LET a == IF req[p].op = "spend" THEN -req[p].amount ELSE req[p].amount
    IN  /\ wallets'[user_wallet[p]].balance =
              CommittedBalance(user_wallet[p]) + a
        /\ wallets'[system_wallet[p]].balance =
              CommittedBalance(system_wallet[p]) - a

FacadeMovesAmount ==
    [][\A p \in Procs :
          CommitsTransfer(p) => PostsByTable(p) /\ MovesAmount(p)]_vars

(***************************************************************************)
(* C15: topup and bonus create the user wallet when it is absent, with     *)
(* balance 0, version 0 and is_system false; every operation creates the   *)
(* missing system counterparty with balance 0, version 0 and is_system     *)
(* true; an existing wallet is returned as it is, not re-created and not   *)
(* reset.                                                                  *)
(***************************************************************************)
\* The wallet the call of _get_or_create_wallet at p returns in this step.
ReturnedWallet(p) ==
    IF pc[p] \in {"user_sel", "user_ins"} THEN user_wallet'[p]
    ELSE system_wallet'[p]

\* The session of p holds a wallet of the pair it has inserted itself.
OwnPending(p, uid, aid) ==
    \E w \in DOMAIN new_wallets[p] :
        new_wallets[p][w].user_id = uid /\ new_wallets[p][w].asset_type_id = aid

\* The select of the call: an absent wallet leads to the insert, an existing
\* one is returned with its committed balance and nothing is written.
SelectReturnsExisting(p) ==
    LET uid == TargetUserId(p)
        aid == AssetOf(p).id
    IN  IF ~CommittedDuplicate(uid, aid) /\ ~OwnPending(p, uid, aid)
        THEN pc'[p] = (IF pc[p] = "user_sel" THEN "user_ins" ELSE "sys_ins")
        ELSE pc'[p] = AfterWallet(p) =>
                LET w == ReturnedWallet(p)
                IN  /\ Row(p, w).user_id = uid
                    /\ Row(p, w).asset_type_id = aid
                    /\ new_wallets'[p] = new_wallets[p]
                    /\ w \in DOMAIN wallets =>
                          identity_map'[p][w].balance = wallets[w].balance
                    /\ w \in DOMAIN new_wallets[p] =>
                          identity_map'[p][w] = identity_map[p][w]

\* The insert of the call, unless the store aborts it as the victim of a
\* deadlock: a new row with zero balance, version 0 and the flag of the
\* path, and no other row touched.
InsertCreatesEmpty(p) ==
    LET uid == TargetUserId(p)
        aid == AssetOf(p).id
    IN  ~CommittedDuplicate(uid, aid) /\ resp'[p].error # "DEADLOCK_DETECTED" =>
           LET w == ReturnedWallet(p)
           IN  /\ pc'[p] = AfterWallet(p)
               /\ w \notin DOMAIN wallets
               /\ w \notin DOMAIN new_wallets[p]
               /\ DOMAIN new_wallets'[p] = DOMAIN new_wallets[p] \cup {w}
               /\ \A v \in DOMAIN new_wallets[p] :
                     new_wallets'[p][v] = new_wallets[p][v]
               /\ new_wallets'[p][w] =
                     [user_id |-> uid, asset_type_id |-> aid, balance |-> 0,
                      version |-> 0, is_system |-> (pc[p] = "sys_ins")]
               /\ identity_map'[p][w].balance = 0

GetOrCreateWallet ==
    [][\A p \in Procs :
          /\ (pc[p] \in {"user_sel", "sys_sel"} /\ pc'[p] # pc[p]) =>
                SelectReturnsExisting(p) /\ UNCHANGED store
          /\ (pc[p] \in {"user_ins", "sys_ins"} /\ pc'[p] # pc[p]) =>
                InsertCreatesEmpty(p) /\ wallets' = wallets]_vars

\* C15, its case: a topup created the user wallet and the treasury, and a
\* later topup of the same user found both: two wallets, flags as created,
\* the balances carried on.
WalletsCreatedOnceAndReused ==
    \E p, q \in Procs :
        /\ p # q
        /\ Committed(p) /\ Committed(q)
        /\ req[p].op = "topup" /\ req[q].op = "topup"
        /\ req[p].user_id = req[q].user_id
        /\ Cardinality(DOMAIN wallets) = 2
        /\ \E u, t \in DOMAIN wallets :
              /\ wallets[u].user_id = req[p].user_id
              /\ ~wallets[u].is_system
              /\ wallets[u].version = 0
              /\ wallets[u].balance = req[p].amount + req[q].amount
              /\ wallets[t].user_id = "SYSTEM_TREASURY_GOLD_COIN"
              /\ wallets[t].is_system
              /\ wallets[t].balance = -(req[p].amount + req[q].amount)

(***************************************************************************)
(* C16: a debit from a system wallet is never refused for lack of funds:   *)
(* no topup or bonus ends with INSUFFICIENT_FUNDS, whatever the balance of *)
(* the Treasury or Bonus Pool wallet, and the commit of a topup or bonus   *)
(* lowers the committed balance of that wallet by the amount.              *)
(***************************************************************************)
SystemDebitNeverRefused ==
    [][\A p \in Procs :
          req[p].op \in {"topup", "bonus"} =>
             /\ resp'[p].error # "INSUFFICIENT_FUNDS"
             /\ CommitsTransfer(p) =>
                   wallets'[system_wallet[p]].balance =
                      CommittedBalance(system_wallet[p]) - req[p].amount]_vars

(***************************************************************************)
(* C17: a topup, bonus, spend, balance or asset-filtered history request   *)
(* that names an asset code which is absent or inactive is refused with    *)
(* ASSET_NOT_FOUND, status 404, and leaves the store unchanged: no wallet, *)
(* header, ledger entry or idempotency record is created.                  *)
(***************************************************************************)
\* p arrives in this step with a code that no active asset type has.
ArrivesWithUnknownAsset(p) ==
    /\ pc[p] = "idle"
    /\ pc'[p] # "idle"
    /\ req'[p].asset_type_code # ""
    /\ ~\E a \in asset_types :
          a.code = req'[p].asset_type_code /\ a.is_active

\* The request is refused on arrival and nothing is written or pending.
RefusedAssetNotFound(p) ==
    /\ pc'[p] = "done"
    /\ resp'[p].status = HTTP_404
    /\ resp'[p].error = "ASSET_NOT_FOUND"
    /\ ~resp'[p].cached

\* As stated: every such request is refused.
UnknownAssetRefused ==
    [][\A p \in Procs :
          ArrivesWithUnknownAsset(p) =>
             RefusedAssetNotFound(p) /\ UNCHANGED <<store, session>>]_vars

\* C17, as it holds: the store is unchanged in every case, and the request
\* is refused with ASSET_NOT_FOUND unless it carries an idempotency key with
\* an unexpired record, whose response is replayed before the asset lookup.
UnknownAssetRefusedUnlessReplayed ==
    [][\A p \in Procs :
          ArrivesWithUnknownAsset(p) =>
             /\ UNCHANGED <<store, session>>
             /\ pc'[p] = "done"
             /\ IF \E l \in LogsOfKey(req'[p].idempotency_key) :
                      l.expires_at > now
                THEN resp'[p].cached /\ resp'[p].status = HTTP_201_CREATED
                ELSE RefusedAssetNotFound(p)]_vars

\* C17, its case: after a committed transfer, a request for the inactive
\* asset was refused and the store is that of the transfer alone.
UnknownAssetRefusedAfterTransfer ==
    \E p, q \in Procs :
        /\ Committed(q)
        /\ pc[p] = "done"
        /\ req[p].op \in MutatingOps
        /\ req[p].asset_type_code = "DIAMOND"
        /\ resp[p].status = HTTP_404
        /\ resp[p].error = "ASSET_NOT_FOUND"
        /\ Len(transactions) = 1
        /\ Len(ledger_entries) = 2
        /\ Cardinality(idempotency_logs) = 1
        /\ \A w \in DOMAIN wallets : wallets[w].asset_type_id = 1

(***************************************************************************)
(* C18: when two requests concurrently make the first reference to the     *)
(* same wallet, the one that loses the race on the unique constraint       *)
(* re-reads the wallet the winner created and continues; neither request   *)
(* fails because of the duplicate key.                                     *)
(***************************************************************************)
\* p is at the insert of a wallet that another request has committed since
\* the select of p found none.
LosesWalletRace(p) ==
    /\ pc[p] \in {"user_ins", "sys_ins"}
    /\ pc'[p] # pc[p]
    /\ CommittedDuplicate(TargetUserId(p), AssetOf(p).id)

WalletRaceLoserContinues ==
    [][\A p \in Procs :
          LosesWalletRace(p) =>
             /\ pc'[p] = AfterWallet(p)
             /\ resp'[p] = resp[p]
             /\ ReturnedWallet(p) \in DOMAIN wallets
             /\ wallets[ReturnedWallet(p)].user_id = TargetUserId(p)
             /\ wallets[ReturnedWallet(p)].asset_type_id = AssetOf(p).id]_vars

(***************************************************************************)
(* C19: in every committed state at most one wallet exists for each        *)
(* (user_id, asset_type_id) pair, under any interleaving of topup, bonus,  *)
(* spend and balance requests that create wallets on first reference.      *)
(***************************************************************************)
OneWalletPerUserAndAsset ==
    \A u, v \in DOMAIN wallets :
        (/\ wallets[u].user_id = wallets[v].user_id
         /\ wallets[u].asset_type_id = wallets[v].asset_type_id) => u = v

\* C19, its case: two requests raced to create the same wallet, one
\* committed it, the other failed on the constraint, and one row exists.
WalletRaceLeavesOneRow ==
    \E p, q \in Procs :
        /\ p # q
        /\ pc[p] = "done" /\ pc[q] = "done"
        /\ resp[q].error = "INTEGRITY_ERROR:uq_user_asset"
        /\ resp[p].error = ""
        /\ req[p].user_id = req[q].user_id
        /\ Cardinality({w \in DOMAIN wallets :
                           wallets[w].user_id = req[p].user_id}) = 1

(***************************************************************************)
(* C20: an idempotency record is written with expires_at = the time of     *)
(* recording + 24 hours, and a lookup of its key returns the cached        *)
(* response exactly when now < expires_at, and none otherwise.             *)
(***************************************************************************)
RecordLivesTwentyFourHours ==
    [][\A p \in Procs :
          /\ (pc[p] = "save_log" /\ pc'[p] = "commit") =>
                /\ Len(new_log'[p]) = 1
                /\ new_log'[p][1].idempotency_key = req[p].idempotency_key
                /\ new_log'[p][1].expires_at = now + 24
          /\ (pc[p] = "idle" /\ pc'[p] # "idle" /\ req'[p].op \in MutatingOps) =>
                (resp'[p].cached <=>
                    \E l \in LogsOfKey(req'[p].idempotency_key) :
                        now < l.expires_at)]_vars

\* C20, its case: the record of the first request was replayed to the
\* second, and the third arrived with the same key at the hour of expiry and
\* was not answered from the record.
LookupMissesAtExpiry ==
    /\ Committed(1)
    /\ pc[2] = "done" /\ resp[2].cached
    /\ req[2].idempotency_key = req[1].idempotency_key
    /\ req[3].idempotency_key = req[1].idempotency_key
    /\ req[3].op \in MutatingOps
    /\ pc[3] \in {"user_read", "user_sel"}
    /\ \E l \in LogsOfKey(req[1].idempotency_key) :
          l.created_at = 0 /\ l.expires_at = 24 /\ now = 24

(***************************************************************************)
(* C21: the idempotency lookup matches on the key alone.  A request on any *)
(* mutating endpoint that carries a key recorded and unexpired for another *)
(* endpoint is answered with the stored body of the original request and   *)
(* performs no transfer.                                                   *)
(***************************************************************************)
\* p arrives in this step with a key that has an unexpired record written
\* for another endpoint than the one p calls.
ArrivesWithKeyOfOtherEndpoint(p) ==
    /\ pc[p] = "idle"
    /\ pc'[p] # "idle"
    /\ req'[p].op \in MutatingOps
    /\ \E l \in LogsOfKey(req'[p].idempotency_key) :
          /\ l.expires_at > now
          /\ l.request_path # RequestPath(req'[p].op)

KeyIsTheAuthority ==
    [][\A p \in Procs :
          ArrivesWithKeyOfOtherEndpoint(p) =>
             /\ pc'[p] = "done"
             /\ resp'[p].cached
             /\ resp'[p].status = HTTP_201_CREATED
             /\ \E l \in LogsOfKey(req'[p].idempotency_key) :
                   resp'[p].body = <<ModelDumpJson(ModelValidate(
                                        JsonLoads(l.response_body)))>>
             /\ \E q \in Procs \ {p} :
                   /\ Committed(q)
                   /\ req[q].idempotency_key = req'[p].idempotency_key
                   /\ req[q].op # req'[p].op
                   /\ resp'[p].body = resp[q].body
                   /\ resp'[p].body[1].transaction_type = TransactionType(req[q].op)
             /\ UNCHANGED <<store, session, locks>>]_vars

\* C21, its case: a spend carrying the key of a committed topup was answered
\* with the topup's body, and one header exists.
SpendAnsweredWithTopup ==
    \E p, q \in Procs :
        /\ Committed(q)
        /\ req[q].op = "topup"
        /\ pc[p] = "done"
        /\ req[p].op = "spend"
        /\ req[p].idempotency_key = req[q].idempotency_key
        /\ resp[p].cached
        /\ resp[p].body = resp[q].body
        /\ resp[p].body[1].transaction_type = "TOPUP"
        /\ Cardinality(HeadersOfKey(req[p].idempotency_key)) = 1

(***************************************************************************)
(* C22: a balance query for an active asset returns the wallet of the user *)
(* and the asset.  When there is none it creates and commits one with      *)
(* balance 0 and is_system false; when there is one it changes nothing.    *)
(* In both cases no balance, header, ledger entry or idempotency record is *)
(* changed.                                                                *)
(***************************************************************************)
\* A step of the balance request p.
BalanceStep(p) == req[p].op = "balance" /\ pc[p] # "idle" /\ pc'[p] # pc[p]

\* Every committed wallet row, the headers, the entries and the records are
\* as before.
NothingButNewWallets ==
    /\ \A w \in DOMAIN wallets : w \in DOMAIN wallets' /\ wallets'[w] = wallets[w]
    /\ UNCHANGED <<transactions, tx_seq, ledger_entries, idempotency_logs>>

\* The answer of p is the wallet w of its user and asset, with balance b.
AnsweredWithWallet(p, w, b) ==
    /\ pc'[p] = "done"
    /\ resp'[p].status = HTTP_200_OK
    /\ resp'[p].error = ""
    /\ resp'[p].body[1].wallet_id = w
    /\ resp'[p].body[1].user_id = req[p].user_id
    /\ resp'[p].body[1].asset_type_code = req[p].asset_type_code
    /\ resp'[p].body[1].balance = <<b \div 100, b % 100>>
    /\ wallets'[w].user_id = req[p].user_id
    /\ wallets'[w].asset_type_id = AssetOf(p).id

BalanceQueryCreatesOrReads ==
    [][\A p \in Procs :
          BalanceStep(p) =>
             /\ NothingButNewWallets
             \* the read: an existing wallet is returned and nothing changes
             /\ pc[p] = "user_read" =>
                   LET w == FindWallet(p, req[p].user_id, AssetOf(p).id)
                   IN  IF w # 0
                       THEN /\ AnsweredWithWallet(p, w, Row(p, w).balance)
                            /\ UNCHANGED store
                       ELSE /\ pc'[p] = "user_sel"
                            /\ UNCHANGED store
             \* the commit: the wallet created for the request, or the one a
             \* concurrent request committed since the read
             /\ pc[p] = "commit_wallet" =>
                   LET w == user_wallet[p]
                   IN  IF w \in DOMAIN wallets
                       THEN /\ UNCHANGED store
                            /\ AnsweredWithWallet(p, w, wallets[w].balance)
                       ELSE /\ DOMAIN wallets' = DOMAIN wallets \cup {w}
                            /\ wallets'[w].balance = 0
                            /\ wallets'[w].version = 0
                            /\ ~wallets'[w].is_system
                            /\ ~resp'[p].body[1].is_system
                            /\ AnsweredWithWallet(p, w, 0)
             \* the other steps commit nothing
             /\ pc[p] \notin {"user_read", "commit_wallet"} =>
                   UNCHANGED <<wallets, transactions, ledger_entries,
                               idempotency_logs>>]_vars

\* C22, its case: a balance query created the wallet of a user and a later
\* one read it, both answered with balance 0, and nothing else was written.
BalanceCreatedThenRead ==
    \E p, q \in Procs :
        /\ p < q
        /\ req[p].op = "balance" /\ req[q].op = "balance"
        /\ req[p].user_id = req[q].user_id
        /\ pc[p] = "done" /\ pc[q] = "done"
        /\ resp[p].status = HTTP_200_OK /\ resp[q].status = HTTP_200_OK
        /\ resp[q].body = resp[p].body
        /\ resp[p].body[1].balance = <<0, 0>>
        /\ Cardinality(DOMAIN wallets) = 1
        /\ transactions = <<>> /\ ledger_entries = <<>>
        /\ idempotency_logs = {}

(***************************************************************************)
(* C23: a mutating request that is cancelled or fails at any step before   *)
(* its commit leaves no partial ledger state (no header, entry or balance  *)
(* change) and no idempotency record, so that a retry with the same key is *)
(* executed as a fresh request and posts the transfer exactly once.        *)
(***************************************************************************)
\* The mutating request p, in flight, ends in this step without a commit.
EndsWithoutCommit(p) ==
    /\ req[p].op \in MutatingOps
    /\ pc[p] \notin {"idle", "done"}
    /\ pc'[p] = "done"
    /\ resp'[p].status # HTTP_201_CREATED

\* p arrives in this step with the key of requests that all ended without a
\* commit.
RetriesUncommittedKey(p) ==
    /\ pc[p] = "idle"
    /\ pc'[p] # "idle"
    /\ req'[p].op \in MutatingOps
    /\ \E q \in Procs \ {p} :
          /\ req[q].idempotency_key = req'[p].idempotency_key
          /\ pc[q] = "done"
    /\ \A q \in Procs \ {p} :
          req[q].idempotency_key = req'[p].idempotency_key =>
             pc[q] = "done" /\ resp[q].status # HTTP_201_CREATED

UncommittedLeavesNothing ==
    [][\A p \in Procs :
          /\ EndsWithoutCommit(p) =>
                /\ UNCHANGED <<wallets, transactions, ledger_entries,
                               idempotency_logs>>
                /\ new_wallets'[p] = NoFunction
                /\ new_tx'[p] = <<>>
                /\ new_entries'[p] = <<>>
                /\ new_log'[p] = <<>>
                /\ locks'[p] = {}
          /\ RetriesUncommittedKey(p) =>
                /\ HeadersOfKey(req'[p].idempotency_key) = {}
                /\ LogsOfKey(req'[p].idempotency_key) = {}
                /\ ~resp'[p].cached
                /\ \/ pc'[p] = UserWalletAwait(req'[p].op)
                   \/ resp'[p].error = "ASSET_NOT_FOUND"]_vars

\* C23, its case: a request was cancelled after it had inserted its header,
\* and the retry with the same key committed the only header of the key,
\* with its two entries and its record.
RetryAfterCancelPostsOnce ==
    \E p, q \in Procs :
        /\ q < p
        /\ req[q].idempotency_key = req[p].idempotency_key
        /\ req[q].op = req[p].op
        /\ pc[q] = "done"
        /\ resp[q].error = "CANCELLED"
        /\ Committed(p)
        /\ tx_seq = 2
        /\ Len(transactions) = 1
        /\ Len(ledger_entries) = 2
        /\ Cardinality(HeadersOfKey(req[p].idempotency_key)) = 1
        /\ Cardinality(LogsOfKey(req[p].idempotency_key)) = 1

(***************************************************************************)
(* C24: every Transaction header has amount > 0 with at most two           *)
(* fractional digits: a topup, bonus or spend whose amount is zero,        *)
(* negative or has more than two fractional digits is rejected by          *)
(* validation before the core is entered and changes no state.             *)
(***************************************************************************)
\* The amounts, in hundredths, of the inputs that are greater than zero and
\* have at most two fractional digits.
PositiveTwoDigitAmounts ==
    {v.coefficient * Pow10(v.exponent + 2) :
        v \in {d \in DecimalInputs :
                  d.sign = 0 /\ d.coefficient > 0 /\ d.exponent >= -2}}

AmountsValidated ==
    [][/\ \A p \in Procs :
             (pc[p] = "idle" /\ pc'[p] # "idle" /\ req'[p].op \in MutatingOps) =>
                IF resp'[p].error = "VALIDATION_ERROR"
                THEN /\ pc'[p] = "done"
                     /\ LET v == resp'[p].body[1]
                        IN  v.sign = 1 \/ v.coefficient = 0 \/ v.exponent < -2
                     /\ UNCHANGED <<store, session, locks>>
                ELSE req'[p].amount \in PositiveTwoDigitAmounts
       /\ \A i \in DOMAIN transactions' :
             /\ transactions'[i].amount > 0
             /\ transactions'[i].amount \in PositiveTwoDigitAmounts
       /\ \A p \in Procs : \A i \in DOMAIN new_tx'[p] :
             new_tx'[p][i].amount \in PositiveTwoDigitAmounts]_vars

\* C24, its case: a transfer of 0.5 is committed and a request of 10.005 was
\* rejected; the store holds the one transfer.
InvalidAmountRejectedValidPosted ==
    \E p, q \in Procs :
        /\ Committed(q)
        /\ req[q].amount = 50
        /\ pc[p] = "done"
        /\ resp[p].error = "VALIDATION_ERROR"
        /\ resp[p].body[1].exponent = -3
        /\ Len(transactions) = 1
        /\ transactions[1].amount = 50
        /\ Len(ledger_entries) = 2

(***************************************************************************)
(* C25: in a store initialised by the seed script, the stored balance of   *)
(* every wallet equals the sum of its ledger entries at every commit       *)
(* boundary, from the seed's own commit onward.                            *)
(***************************************************************************)
SeededBalanceEqualsLedgerSum ==
    \A w \in DOMAIN wallets :
        wallets[w].balance = SumSeq(AmountsOf(EntriesOfWallet(w)))

(***************************************************************************)
(* C26: every mutating request acquires its exclusive wallet row locks in  *)
(* ascending order of wallet id over the whole request: a lock on a wallet *)
(* with a smaller id is never requested while the request holds a lock on  *)
(* a wallet with a larger id, and the wallet acquisition steps that        *)
(* precede the transfer take no row lock.                                  *)
(***************************************************************************)
\* The row locks p takes in this step.
LocksTaken(p) == locks'[p] \ locks[p]

LocksInAscendingOrder ==
    [][\A p \in Procs :
          \A w \in LocksTaken(p) :
             /\ req[p].op \in MutatingOps => pc[p] = "lock"
             /\ \A v \in locks[p] : v < w]_vars

(***************************************************************************)
(* C27: every Transaction header has from_wallet_id different from         *)
(* to_wallet_id, for every topup, bonus and spend with any user_id, a      *)
(* user_id equal to the name of a system wallet included.                  *)
(***************************************************************************)
FromAndToDiffer ==
    \A i \in DOMAIN transactions :
        transactions[i].from_wallet_id # transactions[i].to_wallet_id

(***************************************************************************)
(* C28: the version counter of a wallet is incremented on every balance    *)
(* mutation: after n committed transfers that debit or credit a wallet its *)
(* version is n higher than at creation (0), and version never decreases.  *)
(***************************************************************************)
\* The committed transfers that debit or credit w.
TransfersOfWallet(w) ==
    {i \in DOMAIN transactions :
        transactions[i].from_wallet_id = w \/ transactions[i].to_wallet_id = w}

VersionCountsTransfers ==
    \A w \in DOMAIN wallets :
        wallets[w].version = Cardinality(TransfersOfWallet(w))

(***************************************************************************)
(* C29: every Transaction header visible in a committed state has status   *)
(* COMPLETED.  PENDING exists only inside the uncommitted transaction;     *)
(* topup, bonus and spend never produce a header with status FAILED or     *)
(* ROLLED_BACK, and never change the status of a committed header.         *)
(***************************************************************************)
CommittedHeadersCompleted ==
    [][/\ \A i \in DOMAIN transactions' :
             transactions'[i].status = "COMPLETED"
       /\ \A i \in DOMAIN transactions :
             /\ i \in DOMAIN transactions'
             /\ transactions'[i] = transactions[i]
       /\ \A p \in Procs : \A i \in DOMAIN new_tx'[p] :
             new_tx'[p][i].status \in {"PENDING", "COMPLETED"}]_vars

\* C29, its case: one header is committed, a second request holds its header
\* uncommitted, and a third has failed.
HeaderCommittedPendingAndFailed ==
    \E p, q, r \in Procs :
        /\ Committed(p)
        /\ Len(transactions) = 1
        /\ transactions[1].status = "COMPLETED"
        /\ new_tx[q] # <<>>
        /\ pc[r] = "done"
        /\ req[r].op \in MutatingOps
        /\ resp[r].status = HTTP_500

(***************************************************************************)
(* C30: for every Transaction header, completed_at is set if and only if   *)
(* status = COMPLETED.                                                     *)
(***************************************************************************)
\* completed_at of t is set.
CompletedAtSet(t) == t.completed_at # <<>>

CompletedAtIffCompleted ==
    /\ \A i \in DOMAIN transactions :
          CompletedAtSet(transactions[i]) <=> transactions[i].status = "COMPLETED"
    /\ \A p \in Procs : \A i \in DOMAIN new_tx[p] :
          CompletedAtSet(new_tx[p][i]) <=> new_tx[p][i].status = "COMPLETED"

\* C30, its case: a committed header and an uncommitted one, both COMPLETED
\* with their completion time.
CompletedHeadersCarryTime ==
    \E p \in Procs :
        /\ Len(transactions) = 1
        /\ transactions[1].status = "COMPLETED"
        /\ transactions[1].completed_at = <<transactions[1].created_at>>
        /\ new_tx[p] # <<>>
        /\ new_tx[p][1].status = "COMPLETED"
        /\ new_tx[p][1].completed_at # <<>>

(***************************************************************************)
(* C31: every ledger entry's balance_after equals the balance of its       *)
(* wallet immediately after that posting: the DEBIT entry records the      *)
(* from-wallet's balance before the transfer minus A, the CREDIT entry     *)
(* the to-wallet's balance before the transfer plus A, and for consecutive *)
(* entries of one wallet each balance_after equals the previous            *)
(* balance_after plus the entry's amount.                                  *)
(***************************************************************************)
\* The entries of the wallets of a store that starts empty run from 0.
BalanceAfterRuns(es) ==
    \A i \in DOMAIN es :
        es[i].balance_after =
            (IF i = 1 THEN 0 ELSE es[i - 1].balance_after) + es[i].amount

EngineErrorsAreClientErrors ==
    \A p \in Procs :
        /\ pc[p] = "done"
        /\ req[p].op \in MutatingOps
        => /\ resp[p].error = "WALLET_NOT_FOUND" => resp[p].status = HTTP_404
           /\ resp[p].error = "INSUFFICIENT_FUNDS" => resp[p].status = HTTP_400

(***************************************************************************)
(* C33: a request that ends in a client-class error aborts its store       *)
(* transaction: nothing it wrote before the error becomes part of the      *)
(* committed state, in particular a system or user wallet it lazily        *)
(* created before failing with INSUFFICIENT_FUNDS is not committed.        *)
(***************************************************************************)
\* p ends in this step with a client-class error.
EndsInClientError(p) ==
    /\ pc[p] # "done"
    /\ pc'[p] = "done"
    /\ resp'[p].error \in ClientErrors

\* The wallets rows p has inserted and not committed.
LazilyCreated(p) == DOMAIN new_wallets[p]

ClientErrorAborts ==
    [][\A p \in Procs :
          EndsInClientError(p) =>
             /\ UNCHANGED <<wallets, transactions, ledger_entries,
                            idempotency_logs>>
             /\ \A w \in LazilyCreated(p) :
                   /\ w \notin DOMAIN wallets'
                   /\ \A q \in Procs : w \notin VisibleIds(q)'
             /\ new_wallets'[p] = NoFunction
             /\ new_tx'[p] = <<>>
             /\ new_entries'[p] = <<>>
             /\ new_log'[p] = <<>>
             /\ locks'[p] = {}]_vars

\* C33, its case: a spend inserted the revenue wallet (the second wallet id)
\* and was refused for insufficient funds; the user's wallet is the only row.
RefusedSpendLeavesNoRevenueWallet ==
    \E p \in Procs :
        /\ pc[p] = "done"
        /\ req[p].op = "spend"
        /\ resp[p].error = "INSUFFICIENT_FUNDS"
        /\ resp[p].status = HTTP_400
        /\ wallet_seq = 2
        /\ DOMAIN wallets = {1}
        /\ wallets[1].user_id = req[p].user_id
        /\ \A q \in Procs \ {p} : pc[q] \in {"idle", "done"}
        /\ \A q \in Procs : new_wallets[q] = NoFunction

(***************************************************************************)
(* C34: the history query for a user returns exactly the Transaction       *)
(* headers whose from-wallet or to-wallet belongs to that user (restricted *)
(* to the wallets of one asset when an asset code is given), ordered by    *)
(* created_at descending, returns an empty list when the user has no       *)
(* matching wallet, and never returns more than 100 headers whatever limit *)
(* is requested.                                                           *)
(***************************************************************************)
\* p is a history request answered in this step.
HistoryStep(p) ==
    /\ pc[p] = "idle"
    /\ pc'[p] = "done"
    /\ req'[p].op = "history"

\* Wallet w belongs to the user of the request r, and is of its asset when
\* it names one.
BelongsToUser(w, r) ==
    /\ w \in DOMAIN wallets
    /\ wallets[w].user_id = r.user_id
    /\ r.asset_type_code # "" =>
          \E a \in asset_types : /\ a.code = r.asset_type_code
                                 /\ a.id = wallets[w].asset_type_id

\* The committed headers from or to a wallet of the user of r.
HeadersOfUser(r) ==
    {j \in DOMAIN transactions :
        \/ BelongsToUser(transactions[j].from_wallet_id, r)
        \/ BelongsToUser(transactions[j].to_wallet_id, r)}

\* The headers of the rows of a response, by their transaction_id.
HeadersReturned(rows) ==
    {j \in DOMAIN transactions :
        \E i \in DOMAIN rows :
            rows[i].transaction_id = transactions[j].transaction_id}

NewestFirst(rows) ==
    \A i \in DOMAIN rows :
        i > 1 => rows[i - 1].created_at >= rows[i].created_at

\* The claim as stated: every answered history request returns all the
\* headers of the user.
HistoryReturnsAllHeaders ==
    [][\A p \in Procs :
          HistoryStep(p) /\ resp'[p].status = HTTP_200_OK =>
             LET rows == resp'[p].body[1]
             IN  /\ HeadersReturned(rows) = HeadersOfUser(req'[p])
                 /\ NewestFirst(rows)
                 /\ Len(rows) <= 100]_vars

\* The number of rows of the page: those left after the offset, at most
\* the limit and at most 100.
PageLength(count, limit, offset) ==
    LET left == IF count > offset THEN count - offset ELSE 0
        cap == IF limit < 100 THEN limit ELSE 100
    IN  IF left < cap THEN left ELSE cap

\* Row i of a page that skips offset rows is at its place among the headers
\* H taken newest first.
AtItsPlace(rows, i, H, offset) ==
    /\ Cardinality({j \in H : transactions[j].created_at > rows[i].created_at})
          <= offset + i - 1
    /\ Cardinality({j \in H : transactions[j].created_at >= rows[i].created_at})
          >= offset + i

\* C34 as the code has it: the answer is the page of the headers of the
\* user, newest first, that skips offset rows and holds at most
\* min(limit, 100) rows.
HistoryReturnsPage ==
    [][\A p \in Procs :
          HistoryStep(p) =>
             LET r == req'[p]
                 H == HeadersOfUser(r)
                 owned == \E w \in DOMAIN wallets : BelongsToUser(w, r)
             IN  /\ UNCHANGED <<store, locks, session>>
                 /\ resp'[p].status \in {HTTP_200_OK, HTTP_404, HTTP_500}
                 /\ resp'[p].status = HTTP_404 <=>
                       /\ r.asset_type_code # ""
                       /\ GetAssetTypeByCode(r.asset_type_code) = {}
                 /\ resp'[p].status = HTTP_500 <=>
                       /\ resp'[p].status # HTTP_404
                       /\ owned
                       /\ r.limit < 0 \/ r.offset < 0
                 /\ resp'[p].status = HTTP_200_OK =>
                       LET rows == resp'[p].body[1]
                       IN  /\ ~owned => rows = <<>>
                           /\ owned => Len(rows) =
                                 PageLength(Cardinality(H), r.limit, r.offset)
                           /\ Len(rows) <= 100
                           /\ Cardinality(HeadersReturned(rows)) = Len(rows)
                           /\ HeadersReturned(rows) \subseteq H
                           /\ \A i \in DOMAIN rows :
                                 /\ \E j \in H : rows[i] =
                                       ModelDumpJson(TransactionResponse(transactions[j]))
                                 /\ AtItsPlace(rows, i, H, r.offset)
                           /\ NewestFirst(rows)
                           /\ (r.offset = 0 /\ Cardinality(H) <= r.limit
                               /\ Cardinality(H) <= 100)
                                 => HeadersReturned(rows) = H]_vars

\* C34, its case: a user with more than 100 headers asked for 1000 and was
\* answered with the 100 newest, newest first, none of another user.
HistoryCappedAtHundred ==
    \E p \in Procs :
        /\ pc[p] = "done"
        /\ req[p].op = "history"
        /\ req[p].limit = 1000
        /\ req[p].offset = 0
        /\ resp[p].status = HTTP_200_OK
        /\ Cardinality(HeadersOfUser(req[p])) > 100
        /\ Len(resp[p].body[1]) = 100
        /\ resp[p].body[1][1].created_at = MaxHistory - 1
        /\ resp[p].body[1][1].created_at > resp[p].body[1][100].created_at
        /\ \A i \in 1..100 :
              resp[p].body[1][i].to_wallet_id = 1

(***************************************************************************)
(* C35: wallets, Transaction headers and ledger entries are never removed, *)
(* and a ledger entry is never modified after it is committed: every       *)
(* wallet and every ledger entry present in one committed state is         *)
(* present, with the same ledger fields, in every later committed state.   *)
(***************************************************************************)
\* What identifies a wallets row: everything but its balance.
WalletIdentity(row) ==
    [user_id |-> row.user_id, asset_type_id |-> row.asset_type_id,
     is_system |-> row.is_system]

AppendOnly ==
    [][/\ \A w \in DOMAIN wallets :
             /\ w \in DOMAIN wallets'
             /\ WalletIdentity(wallets'[w]) = WalletIdentity(wallets[w])
       /\ \A i \in DOMAIN transactions :
             /\ i \in DOMAIN transactions'
             /\ transactions'[i] = transactions[i]
       /\ \A k \in DOMAIN ledger_entries :
             /\ k \in DOMAIN ledger_entries'
             /\ ledger_entries'[k] = ledger_entries[k]]_vars

\* C35, its case: after a second committed transfer the two entries of the
\* first are still the first two of the ledger, and the wallet the first
\* credited has moved on from the balance its entry recorded.
FirstEntriesKeptAfterSecondTransfer ==
    /\ Len(transactions) = 2
    /\ Len(ledger_entries) = 4
    /\ \A k \in 1..2 : ledger_entries[k].transaction_id = transactions[1].id
    /\ \A k \in 3..4 : ledger_entries[k].transaction_id = transactions[2].id
    /\ ledger_entries[2].wallet_id \in DOMAIN wallets
    /\ wallets[ledger_entries[2].wallet_id].balance
          # ledger_entries[2].balance_after
    /\ \A k \in 1..4 : ledger_entries[k].wallet_id \in DOMAIN wallets

(***************************************************************************)
(* C36: two concurrent transfers whose wallet pairs are disjoint (e.g. a   *)
(* topup for one user and a spend by another user of the same asset, with  *)
(* all wallets already existing) never wait for each other: neither is     *)
(* ever blocked on a row lock held by the other.                           *)
(***************************************************************************)
\* p is a transfer in flight.
TransferInFlight(p) ==
    /\ req[p].op \in MutatingOps
    /\ pc[p] \notin {"idle", "done"}

\* The committed wallets of the user and of the counterparty of p.
WalletPair(p) ==
    {w \in DOMAIN wallets :
        /\ wallets[w].asset_type_id = AssetOf(p).id
        /\ wallets[w].user_id \in
              {req[p].user_id,
               SystemUserId(req[p].op, req[p].asset_type_code)}}

\* The row the next statement of p asks a lock for: 0 when it asks for none.
RowRequested(p) ==
    CASE pc[p] \in {"user_sel", "sys_sel"} ->
            FindWallet(p, TargetUserId(p), AssetOf(p).id)
      [] pc[p] = "lock" /\ RowsToLock(p) # {} -> NextRowToLock(p)
      [] OTHER -> 0

\* p waits for a row lock that q holds.
WaitsForRowLockOf(p, q) ==
    /\ RowRequested(p) # 0
    /\ RowRequested(p) \in locks[q]

DisjointTransfersDoNotWait ==
    \A p, q \in Procs :
        /\ p # q
        /\ TransferInFlight(p)
        /\ TransferInFlight(q)
        /\ Cardinality(WalletPair(p)) = 2
        /\ Cardinality(WalletPair(q)) = 2
        /\ WalletPair(p) \cap WalletPair(q) = {}
        => /\ ~WaitsForRowLockOf(p, q)
           /\ locks[p] \subseteq WalletPair(p)
           /\ locks[p] \cap locks[q] = {}

\* C36, its case: a topup of one user and a spend of another, on existing
\* wallets, hold both their rows locked at the same time.
TopupAndSpendLockedTogether ==
    \E p, q \in Procs :
        /\ TransferInFlight(p)
        /\ TransferInFlight(q)
        /\ req[p].op = "topup"
        /\ req[q].op = "spend"
        /\ req[p].user_id = "user_alice"
        /\ req[q].user_id = "user_bob"
        /\ WalletPair(p) \cap WalletPair(q) = {}
        /\ locks[p] = WalletPair(p)
        /\ locks[q] = WalletPair(q)
        /\ Cardinality(locks[p] \cup locks[q]) = 4
        /\ pc[p] = "post"
        /\ pc[q] = "post"

(***************************************************************************)
(* C37: in every reachable state, every wallet whose user_id is            *)
(* SYSTEM_TREASURY_<code>, SYSTEM_BONUS_POOL_<code> or                     *)
(* SYSTEM_REVENUE_<code> has is_system = true and every other wallet has   *)
(* is_system = false, for any sequence of topup, bonus, spend and balance  *)
(* requests with arbitrary user_id strings (including a balance query or a *)
(* topup whose user_id is itself a system wallet name, issued before that  *)
(* system wallet exists).                                                  *)
(***************************************************************************)
\* The names of the system wallets of the asset types.
SystemWalletNames ==
    {SystemUserId(op, a.code) : op \in MutatingOps, a \in asset_types}

SystemFlagFollowsName ==
    \A w \in DOMAIN wallets :
        wallets[w].is_system <=> wallets[w].user_id \in SystemWalletNames

(***************************************************************************)
(* C38: once the idempotency record of a committed request with key k has  *)
(* expired (and has not been garbage-collected), a new mutating request    *)
(* carrying k is not replayed from the cache and does not post a second    *)
(* transfer: it fails on the unique constraint on the key with a server    *)
(* error and leaves the committed state unchanged, so no request with key  *)
(* k can succeed again.                                                    *)
(***************************************************************************)
\* The transfer of key k is committed and its record has expired.
ExpiredKey(k) ==
    /\ HeadersOfKey(k) # {}
    /\ LogsOfKey(k) # {}
    /\ \A l \in LogsOfKey(k) : l.expires_at <= now

\* p arrives in this step with a key whose record has expired.
ArrivesWithExpiredKey(p) ==
    /\ pc[p] = "idle"
    /\ req'[p].op \in MutatingOps
    /\ ExpiredKey(req'[p].idempotency_key)

\* p, which carries a key whose record has expired, ends in this step.
EndsWithExpiredKey(p) ==
    /\ req'[p].op \in MutatingOps
    /\ pc'[p] = "done"
    /\ pc[p] # "done"
    /\ ExpiredKey(req'[p].idempotency_key)

FailsOnKey(p) ==
    /\ resp'[p].status = HTTP_500
    /\ resp'[p].error = "INTEGRITY_ERROR:ix_transactions_idempotency_key"

\* The claim as stated: every request with an expired key ends on the
\* unique constraint on the key.
ExpiredKeyFailsOnConstraint ==
    [][\A p \in Procs :
          EndsWithExpiredKey(p) =>
             /\ ~resp'[p].cached
             /\ FailsOnKey(p)
             /\ UNCHANGED <<wallets, transactions, ledger_entries,
                            idempotency_logs>>]_vars

\* C38 as the code has it: a request with an expired key is not replayed
\* and never succeeds; it is refused like any other request by the checks
\* that precede the insertion of its header, and fails on the unique
\* constraint on the key when it reaches that insertion.
ExpiredKeyNeverSucceeds ==
    [][\A p \in Procs :
          /\ ArrivesWithExpiredKey(p) =>
                /\ ~resp'[p].cached
                /\ \/ pc'[p] = UserWalletAwait(req'[p].op)
                   \/ resp'[p].error = "ASSET_NOT_FOUND"
          /\ EndsWithExpiredKey(p) =>
                /\ ~resp'[p].cached
                /\ resp'[p].status \in {HTTP_400, HTTP_404, HTTP_500}
                /\ pc[p] = "post" => FailsOnKey(p)
                /\ FailsOnKey(p) => pc[p] = "post"
                /\ new_tx[p] = <<>>
                /\ UNCHANGED <<wallets, transactions, ledger_entries,
                               idempotency_logs>>
          /\ \A k \in AllKeys \cup {EarlierKey} :
                ExpiredKey(k) =>
                   /\ Cardinality(HeadersOfKey(k)') = 1
                   /\ Len(EntriesOfKey(k)') = 2]_vars

\* C38, its case: a day after the topup of a key a spend within the balance
\* carrying that key failed on the unique constraint, and a spend above the
\* balance carrying it was refused for insufficient funds; the key still has
\* its one header and two entries and the balance is as the topup left it.
ExpiredKeyReusedAndRefused ==
    \E p, q \in Procs :
        /\ p # q
        /\ ExpiredKey(EarlierKey)
        /\ req[p].idempotency_key = EarlierKey
        /\ req[q].idempotency_key = EarlierKey
        /\ pc[p] = "done"
        /\ pc[q] = "done"
        /\ req[p].op = "spend"
        /\ req[q].op = "spend"
        /\ ~resp[p].cached
        /\ resp[p].status = HTTP_500
        /\ resp[p].error = "INTEGRITY_ERROR:ix_transactions_idempotency_key"
        /\ resp[q].status = HTTP_400
        /\ resp[q].error = "INSUFFICIENT_FUNDS"
        /\ Cardinality(HeadersOfKey(EarlierKey)) = 1
        /\ Len(EntriesOfKey(EarlierKey)) = 2
        /\ Len(transactions) = 1
        /\ wallets[1].balance = 1000

(***************************************************************************)
(* C39: from an empty store, in every committed state and for each asset   *)
(* type, the stored balances of all the wallets of the asset, user and     *)
(* system, sum to zero.                                                    *)
(***************************************************************************)
WalletsOfAssetType(aid) ==
    {w \in DOMAIN wallets : wallets[w].asset_type_id = aid}

RECURSIVE SumOfBalances(_)
SumOfBalances(W) ==
    IF W = {} THEN 0
    ELSE LET w == CHOOSE x \in W : TRUE
         IN  wallets[w].balance + SumOfBalances(W \ {w})

====
